---- MODULE Spec2Model ----
(***************************************************************************)
(* A model of the statistical core of BinomialCalculator:                  *)
(*   services/model_selector.py  ModelSelector                             *)
(*   services/distributions.py   BinomialDistribution,                     *)
(*                               HypergeometricDistribution,               *)
(*                               DistributionFactory                       *)
(*                                                                         *)
(* Numbers.  Python ints are integers.  A Python float that the code       *)
(* obtains from integers by + - * / is carried as the exact rational       *)
(* [num, den] it approximates; round(v, d) is carried out digit by digit   *)
(* on that rational and yields an integer count of 10^-d units.  A         *)
(* math.sqrt result is carried as the value under the root.  An optional   *)
(* argument is <<>> (None) or <<v>>.                                       *)
(***************************************************************************)
EXTENDS Integers, Sequences, FiniteSets, TLC

VARIABLES
    args,            \* the arguments of the call under analysis
    call,            \* the operation applied to args ("none" before the call)
    result,          \* what the call returned or raised
    engine,          \* fields of the engine instance the call ran on
    distributions,   \* DistributionFactory._distributions, in insertion order
    pc,              \* per thread, the line of calculate it is about to run
    frame,           \* per thread, the local variables of its calculate call
    session          \* request.session of the one client of the views

vars == <<args, call, result, engine, distributions, pc, frame, session>>

\* what the calls that run alone and outside a request leave as it is
context == <<pc, frame, session>>

---------------------------------------------------------------------------
(* Bounds of the model *)

\* population sizes N (and K, n, x up to MaxN + 1) given to the selector and
\* to the hypergeometric engine
MaxN == 11
\* population sizes N given to the binomial engine (n/N = 0.05 needs N = 20)
MaxBinomN == 21
\* sample sizes n given to the binomial engine
MaxBinomSample == 3
\* probabilities p given to the binomial engine are the multiples of 1/PDen
\* from -1/PDen to (PDen+1)/PDen
PDen == 4
\* the letter-case variants of a name given to the factory put any of its
\* first MaxCaseLetters letters in upper case (or all of them)
MaxCaseLetters == 2

---------------------------------------------------------------------------
(* Optional values *)

None == <<>>
Some(v) == <<v>>
IsNone(o) == o = <<>>
Val(o) == o[1]

---------------------------------------------------------------------------
(* Exact rationals *)

Abs(a) == IF a < 0 THEN -a ELSE a

Min(a, b) == IF a <= b THEN a ELSE b

RECURSIVE GCD(_, _)
GCD(a, b) == IF b = 0 THEN a ELSE GCD(b, a % b)

\* a/b, b # 0, in lowest terms with a positive denominator
R(a, b) ==
    LET g == GCD(Abs(a), Abs(b))
        s == IF b < 0 THEN -1 ELSE 1
    IN  [num |-> s * (a \div g), den |-> s * (b \div g)]

RInt(a) == [num |-> a, den |-> 1]
RAdd(r, s) == R(r.num * s.den + s.num * r.den, r.den * s.den)
RSub(r, s) == R(r.num * s.den - s.num * r.den, r.den * s.den)
RMul(r, s) == R(r.num * s.num, r.den * s.den)
\* s # 0
RDiv(r, s) == R(r.num * s.den, r.den * s.num)
RLess(r, s) == r.num * s.den < s.num * r.den
RLeq(r, s) == r.num * s.den <= s.num * r.den
RIsZero(r) == r.num = 0

\* the quotient a/b (a >= 0, b > 0) shifted d decimal places, with what is left:
\* <<floor(a * 10^d / b), remainder>>, by long division
RECURSIVE Shift(_, _, _, _)
Shift(q, r, b, d) ==
    IF d = 0 THEN <<q, r>>
    ELSE Shift(q * 10 + ((r * 10) \div b), (r * 10) % b, b, d - 1)

\* round(a / b, d) for a >= 0, b > 0, counted in units of 10^-d; a tie goes to
\* the even neighbour
RoundPos(a, b, d) ==
    LET s == Shift(a \div b, a % b, b, d)
        q == s[1]
        r == s[2]
    IN  IF 2 * r > b THEN q + 1
        ELSE IF 2 * r < b THEN q
        ELSE IF q % 2 = 0 THEN q ELSE q + 1

\* round(v, d) of the rational v, in units of 10^-d
Round(v, d) ==
    IF v.num >= 0 THEN RoundPos(v.num, v.den, d)
    ELSE -RoundPos(-v.num, v.den, d)

\* the binomial coefficient, 0 outside 0 <= k <= n
RECURSIVE Comb(_, _)
Comb(n, k) ==
    IF k < 0 \/ k > n THEN 0
    ELSE IF k = 0 THEN 1
    ELSE (Comb(n - 1, k - 1) * n) \div k

\* the sign of an integer
Sign(a) == IF a < 0 THEN -1 ELSE IF a = 0 THEN 0 ELSE 1

---------------------------------------------------------------------------
(* Natural numbers of any size, as their digits in base Limb, units first *)

Limb == 1000

\* the digits without the zeros at the most significant end
RECURSIVE BigNorm(_)
BigNorm(a) ==
    IF a = <<>> THEN <<>>
    ELSE IF a[Len(a)] = 0 THEN BigNorm(SubSeq(a, 1, Len(a) - 1))
    ELSE a

RECURSIVE BigOfInt(_)
BigOfInt(n) == IF n = 0 THEN <<>> ELSE <<n % Limb>> \o BigOfInt(n \div Limb)

\* the integer a number of few digits stands for
RECURSIVE BigToInt(_)
BigToInt(a) == IF a = <<>> THEN 0 ELSE Head(a) + Limb * BigToInt(Tail(a))

RECURSIVE BigAddCarry(_, _, _)
BigAddCarry(a, b, carry) ==
    IF a = <<>> /\ b = <<>> THEN (IF carry = 0 THEN <<>> ELSE <<carry>>)
    ELSE LET x == IF a = <<>> THEN 0 ELSE Head(a)
             y == IF b = <<>> THEN 0 ELSE Head(b)
             t == x + y + carry
         IN  <<t % Limb>> \o BigAddCarry(IF a = <<>> THEN a ELSE Tail(a),
                                         IF b = <<>> THEN b ELSE Tail(b), t \div Limb)

BigAdd(a, b) == BigAddCarry(a, b, 0)

\* -1, 0 or 1 as a < b, a = b or a > b; equally long numbers compare by their
\* most significant differing digit
RECURSIVE BigCmpSameLen(_, _)
BigCmpSameLen(a, b) ==
    IF a = <<>> THEN 0
    ELSE IF a[Len(a)] < b[Len(b)] THEN -1
    ELSE IF a[Len(a)] > b[Len(b)] THEN 1
    ELSE BigCmpSameLen(SubSeq(a, 1, Len(a) - 1), SubSeq(b, 1, Len(b) - 1))

BigCmp(a, b) ==
    IF Len(a) < Len(b) THEN -1
    ELSE IF Len(a) > Len(b) THEN 1
    ELSE BigCmpSameLen(a, b)

\* a - b for a >= b, digit by digit with a borrow
RECURSIVE BigSubBorrow(_, _, _)
BigSubBorrow(a, b, borrow) ==
    IF a = <<>> THEN <<>>
    ELSE LET y == IF b = <<>> THEN 0 ELSE Head(b)
             t == Head(a) - y - borrow
         IN  <<IF t < 0 THEN t + Limb ELSE t>>
                 \o BigSubBorrow(Tail(a), IF b = <<>> THEN b ELSE Tail(b),
                                 IF t < 0 THEN 1 ELSE 0)

BigSub(a, b) == BigNorm(BigSubBorrow(a, b, 0))

\* a * k for an integer 0 <= k <= 2 * Limb^2
RECURSIVE BigMulSmallCarry(_, _, _)
BigMulSmallCarry(a, k, carry) ==
    IF a = <<>> THEN BigOfInt(carry)
    ELSE LET t == Head(a) * k + carry
         IN  <<t % Limb>> \o BigMulSmallCarry(Tail(a), k, t \div Limb)

BigMulSmall(a, k) == BigNorm(BigMulSmallCarry(a, k, 0))

RECURSIVE BigMul(_, _)
BigMul(a, b) ==
    IF a = <<>> \/ b = <<>> THEN <<>>
    ELSE BigNorm(BigAdd(BigMulSmall(a, Head(b)), <<0>> \o BigMul(a, Tail(b))))

RECURSIVE BigPow(_, _)
BigPow(a, e) ==
    IF e = 0 THEN <<1>>
    ELSE LET half == BigPow(a, e \div 2)
             square == BigMul(half, half)
         IN  IF e % 2 = 1 THEN BigMul(square, a) ELSE square

\* long division by an integer 0 < k <= 2 * Limb^2, from the most significant
\* digit down: [q |-> a div k, r |-> a mod k]
RECURSIVE BigDivSmallFrom(_, _, _, _, _)
BigDivSmallFrom(a, k, i, q, r) ==
    IF i = 0 THEN [q |-> BigNorm(q), r |-> r]
    ELSE LET t == r * Limb + a[i]
         IN  BigDivSmallFrom(a, k, i - 1, <<t \div k>> \o q, t % k)

BigDivSmall(a, k) == BigDivSmallFrom(a, k, Len(a), <<>>, 0)

BigIsOdd(a) == a # <<>> /\ Head(a) % 2 = 1

\* q + rem / den for rem < den rounded to an integer, a tie going to the even
\* neighbour
BigRoundUp(q, rem, den) ==
    LET twice == BigCmp(BigMulSmall(rem, 2), den)
    IN  IF twice > 0 \/ (twice = 0 /\ BigIsOdd(q)) THEN BigAdd(q, <<1>>) ELSE q

\* a divided e times by k: [q |-> a div k^e, r |-> a mod k^e]
RECURSIVE BigDivPow(_, _, _)
BigDivPow(a, k, e) ==
    IF e = 0 THEN [q |-> a, r |-> <<>>]
    ELSE LET first == BigDivSmall(a, k)
             rest == BigDivPow(first.q, k, e - 1)
         IN  [q |-> rest.q,
              r |-> BigAdd(BigMulSmall(rest.r, k), BigOfInt(first.r))]

\* a / k^e rounded to an integer, a tie going to the even neighbour
BigRoundDivPow(a, k, e) ==
    LET d == BigDivPow(a, k, e)
    IN  BigRoundUp(d.q, d.r, BigPow(BigOfInt(k), e))

---------------------------------------------------------------------------
(* Python floats: IEEE 754 doubles, as sign * m * 2^e with m below 2^53 or *)
(* equal to it; every operation rounds its exact result to the nearest     *)
(* double, a tie going to the even mantissa                                *)

MantissaBits == 53

\* the powers of two the operations below reach for
MaxTwoPow == 128

TwoPowTable == [e \in 0 .. MaxTwoPow |-> BigPow(<<2>>, e)]

BigTwoPow(e) == TwoPowTable[e]

\* the number of binary digits of an integer k >= 0
RECURSIVE BitLength(_)
BitLength(k) == IF k = 0 THEN 0 ELSE 1 + BitLength(k \div 2)

\* the number of binary digits a has beyond the mantissa's, counting from t
RECURSIVE ExcessBits(_, _)
ExcessBits(a, t) ==
    IF BigCmp(a, BigTwoPow(MantissaBits + t)) < 0 THEN t ELSE ExcessBits(a, t + 1)

FloatZero == [sign |-> 1, m |-> <<>>, e |-> 0]

\* [q |-> a div 2^t, r |-> a mod 2^t] rounded to the nearest integer, a tie or
\* a remainder of one half going up when sticky or when q is odd
FloatRoundQuotient(sign, d, half, e, sticky) ==
    [sign |-> sign,
     m |-> IF d.r > half \/ (d.r = half /\ (sticky \/ BigIsOdd(d.q)))
           THEN BigAdd(d.q, <<1>>) ELSE d.q,
     e |-> e]

\* a, which has t binary digits beyond the mantissa's, without them
FloatRoundExcess(sign, a, e, sticky, t) ==
    IF t = 0 THEN [sign |-> sign, m |-> a, e |-> e]
    ELSE FloatRoundQuotient(sign, BigDivSmall(a, 2 ^ t), 2 ^ (t - 1), e + t, sticky)

\* sign * (a * 2^e + tail) rounded to a double, where the tail is 0 or, when
\* sticky, positive and below 2^e; a sticky a carries at least two bits more
\* than the mantissa
FloatRound(sign, a, e, sticky) ==
    IF a = <<>> THEN FloatZero
    ELSE FloatRoundExcess(sign, a, e, sticky, ExcessBits(a, 0))

\* float(k) for an integer k below 2^31
FloatOfInt(k) ==
    IF k = 0 THEN FloatZero
    ELSE [sign |-> Sign(k), m |-> BigOfInt(Abs(k)), e |-> 0]

\* the quotient d of a * 2^s by b, as the double nearest to a / b
FloatOfQuotient(d, s) == FloatRound(1, d.q, 0 - s, d.r # 0)

\* a / b with s binary digits after the point
FloatDivShifted(a, b, s) ==
    FloatOfQuotient(BigDivSmall(BigMul(BigOfInt(a), BigTwoPow(s)), b), s)

\* a / b for integers a >= 0 and b > 0
FloatDivInt(a, b) == FloatDivShifted(a, b, MantissaBits + 1 + BitLength(b))

\* k * y for an integer k
FloatMulInt(k, y) ==
    FloatRound(y.sign * Sign(k), BigMulSmall(y.m, Abs(k)), y.e, FALSE)

FloatNeg(x) == [x EXCEPT !.sign = 0 - x.sign]

\* the mantissa of x on the exponent e <= x.e
FloatAligned(x, e) == BigMul(x.m, BigTwoPow(x.e - e))

\* FloatCmp for the mantissas a of x and b of y on one exponent
FloatCmpAligned(x, y, a, b) ==
    IF a = <<>> /\ b = <<>> THEN 0
    ELSE IF a = <<>> THEN 0 - y.sign
    ELSE IF b = <<>> THEN x.sign
    ELSE IF x.sign # y.sign THEN x.sign
    ELSE x.sign * BigCmp(a, b)

\* -1, 0 or 1 as x < y, x = y or x > y
FloatCmp(x, y) ==
    FloatCmpAligned(x, y, FloatAligned(x, Min(x.e, y.e)), FloatAligned(y, Min(x.e, y.e)))

FloatLess(x, y) == FloatCmp(x, y) < 0

\* FloatAdd for the mantissas a of x and b of y on the exponent e
FloatAddAligned(x, y, e, a, b) ==
    IF a = <<>> THEN y
    ELSE IF b = <<>> THEN x
    ELSE FloatRound(IF x.sign = y.sign \/ BigCmp(a, b) >= 0 THEN x.sign ELSE y.sign,
                    IF x.sign = y.sign THEN BigAdd(a, b)
                    ELSE IF BigCmp(a, b) >= 0 THEN BigSub(a, b)
                    ELSE BigSub(b, a),
                    e, FALSE)

\* x + y
FloatAdd(x, y) ==
    FloatAddAligned(x, y, Min(x.e, y.e),
                    FloatAligned(x, Min(x.e, y.e)), FloatAligned(y, Min(x.e, y.e)))

FloatSub(x, y) == FloatAdd(x, FloatNeg(y))

---------------------------------------------------------------------------
(* Strings whose letters matter are sequences of one-character strings *)

LowerLetters ==
    <<"a", "b", "c", "d", "e", "f", "g", "h", "i", "j", "k", "l", "m",
      "n", "o", "p", "q", "r", "s", "t", "u", "v", "w", "x", "y", "z">>
UpperLetters ==
    <<"A", "B", "C", "D", "E", "F", "G", "H", "I", "J", "K", "L", "M",
      "N", "O", "P", "Q", "R", "S", "T", "U", "V", "W", "X", "Y", "Z">>

CharLower(c) ==
    IF \E i \in DOMAIN UpperLetters : UpperLetters[i] = c
    THEN LowerLetters[CHOOSE i \in DOMAIN UpperLetters : UpperLetters[i] = c]
    ELSE c

CharUpper(c) ==
    IF \E i \in DOMAIN LowerLetters : LowerLetters[i] = c
    THEN UpperLetters[CHOOSE i \in DOMAIN LowerLetters : LowerLetters[i] = c]
    ELSE c

\* str.lower()
Lower(s) == [i \in DOMAIN s |-> CharLower(s[i])]

\* str.upper()
Upper(s) == [i \in DOMAIN s |-> CharUpper(s[i])]

---------------------------------------------------------------------------
(* Outcomes of a call *)

Raise(kind, msg) == [status |-> kind, message |-> msg]

Ok(r) == r.status = "ok"

\* no engine instance exists
NoEngine == [class |-> "none"]

\* no thread is running; no session is open
NoThreads == <<>>
NoSession == <<>>

---------------------------------------------------------------------------
(* services/model_selector.py *)

\* DistributionType.BINOMIAL.value, DistributionType.HYPERGEOMETRIC.value
BINOMIAL == <<"b", "i", "n", "o", "m", "i", "a", "l">>
HYPERGEOMETRIC ==
    <<"h", "y", "p", "e", "r", "g", "e", "o", "m", "e", "t", "r", "i", "c">>

\* ModelSelector.THRESHOLD = 0.20
THRESHOLD == R(20, 100)

\* decide with the threshold compared by > where the code has >=
decide_strict_threshold(N, K, n) ==
    IF N <= 0 THEN Raise("ValueError", <<"La poblacion (N) debe ser mayor que 0">>)
    ELSE IF K < 0 THEN Raise("ValueError", <<"Los exitos en poblacion (K) no pueden ser negativos">>)
    ELSE IF K > N THEN Raise("ValueError", <<"K no puede ser mayor que N">>)
    ELSE IF n <= 0 THEN Raise("ValueError", <<"El tamano de muestra (n) debe ser mayor que 0">>)
    ELSE IF n > N THEN Raise("ValueError", <<"La muestra (n) no puede ser mayor que la poblacion (N)">>)
    ELSE
        LET sample_ratio == R(n, N)
            threshold == THRESHOLD
        IN  IF RLess(threshold, sample_ratio)
            THEN [status |-> "ok",
                  distribution_type |-> HYPERGEOMETRIC,
                  sample_ratio |-> Round(sample_ratio, 4),
                  threshold_used |-> threshold,
                  recommendation |-> None]
            ELSE [status |-> "ok",
                  distribution_type |-> BINOMIAL,
                  sample_ratio |-> Round(sample_ratio, 4),
                  threshold_used |-> threshold,
                  recommendation |-> Some("Para mayor precision, considere usar la Distribucion Hipergeometrica.")]

\* decide without the check of n against N
decide_no_sample_bound(N, K, n) ==
    IF N <= 0 THEN Raise("ValueError", <<"La poblacion (N) debe ser mayor que 0">>)
    ELSE IF K < 0 THEN Raise("ValueError", <<"Los exitos en poblacion (K) no pueden ser negativos">>)
    ELSE IF K > N THEN Raise("ValueError", <<"K no puede ser mayor que N">>)
    ELSE IF n <= 0 THEN Raise("ValueError", <<"El tamano de muestra (n) debe ser mayor que 0">>)
    ELSE
        LET sample_ratio == R(n, N)
            threshold == THRESHOLD
        IN  IF RLeq(threshold, sample_ratio)
            THEN [status |-> "ok",
                  distribution_type |-> HYPERGEOMETRIC,
                  sample_ratio |-> Round(sample_ratio, 4),
                  threshold_used |-> threshold,
                  recommendation |-> None]
            ELSE [status |-> "ok",
                  distribution_type |-> BINOMIAL,
                  sample_ratio |-> Round(sample_ratio, 4),
                  threshold_used |-> threshold,
                  recommendation |-> Some("Para mayor precision, considere usar la Distribucion Hipergeometrica.")]

\* ModelSelector.decide: the validation, then the ModelDecision
decide(N, K, n) ==
    IF N <= 0 THEN Raise("ValueError", <<"La poblacion (N) debe ser mayor que 0">>)
    ELSE IF K < 0 THEN Raise("ValueError", <<"Los exitos en poblacion (K) no pueden ser negativos">>)
    ELSE IF K > N THEN Raise("ValueError", <<"K no puede ser mayor que N">>)
    ELSE IF n <= 0 THEN Raise("ValueError", <<"El tamano de muestra (n) debe ser mayor que 0">>)
    ELSE IF n > N THEN Raise("ValueError", <<"La muestra (n) no puede ser mayor que la poblacion (N)">>)
    ELSE
        LET sample_ratio == R(n, N)
            threshold == THRESHOLD
        IN  IF RLeq(threshold, sample_ratio)
            THEN [status |-> "ok",
                  distribution_type |-> HYPERGEOMETRIC,
                  sample_ratio |-> Round(sample_ratio, 4),
                  threshold_used |-> threshold,
                  recommendation |-> None]
            ELSE [status |-> "ok",
                  distribution_type |-> BINOMIAL,
                  sample_ratio |-> Round(sample_ratio, 4),
                  threshold_used |-> threshold,
                  recommendation |-> Some("Para mayor precision, considere usar la Distribucion Hipergeometrica.")]

---------------------------------------------------------------------------
(* services/distributions.py: BinomialDistribution *)

\* A product of rationals, kept as the sequence of its factors: n*p*(1-p) of a
\* p with six decimals has a twelve-digit denominator.
PIsZero(fs) == \E i \in DOMAIN fs : RIsZero(fs[i])

\* BinomialDistribution.__init__
BinomialDistribution ==
    [class |-> "BinomialDistribution",
     n |-> None, p |-> None, x |-> None, N |-> None, is_finite |-> FALSE]

\* _validate_inputs with x compared by >= n where the code has > n
Binomial_validate_inputs_off_by_one(n, p, x, N) ==
    IF n <= 0
    THEN Raise("ValueError", <<"El tamano de la muestra (n) debe ser mayor que 0">>)
    ELSE IF ~(RLeq(RInt(0), p) /\ RLeq(p, RInt(1)))
    THEN Raise("ValueError", <<"La probabilidad (p) debe estar entre 0 y 1">>)
    ELSE IF ~IsNone(x) /\ (Val(x) < 0 \/ Val(x) >= n)
    THEN Raise("ValueError", <<"El numero de exitos (x) debe estar entre 0 y", n>>)
    ELSE IF ~IsNone(N) /\ Val(N) <= 0
    THEN Raise("ValueError", <<"El tamano de la poblacion (N) debe ser mayor que 0">>)
    ELSE IF ~IsNone(N) /\ n > Val(N)
    THEN Raise("ValueError", <<"El tamano de la muestra (n) no puede ser mayor que la poblacion (N)">>)
    ELSE [status |-> "ok"]

\* BinomialDistribution._validate_inputs: the error raised, or "ok"
Binomial_validate_inputs(n, p, x, N) ==
    IF n <= 0
    THEN Raise("ValueError", <<"El tamano de la muestra (n) debe ser mayor que 0">>)
    ELSE IF ~(RLeq(RInt(0), p) /\ RLeq(p, RInt(1)))
    THEN Raise("ValueError", <<"La probabilidad (p) debe estar entre 0 y 1">>)
    ELSE IF ~IsNone(x) /\ (Val(x) < 0 \/ Val(x) > n)
    THEN Raise("ValueError", <<"El numero de exitos (x) debe estar entre 0 y", n>>)
    ELSE IF ~IsNone(N) /\ Val(N) <= 0
    THEN Raise("ValueError", <<"El tamano de la poblacion (N) debe ser mayor que 0">>)
    ELSE IF ~IsNone(N) /\ n > Val(N)
    THEN Raise("ValueError", <<"El tamano de la muestra (n) no puede ser mayor que la poblacion (N)">>)
    ELSE [status |-> "ok"]

\* the literal 0.05 of _determine_population_type and calculate_std
FiniteRatio == R(5, 100)

\* BinomialDistribution._determine_population_type: (is_finite, ratio)
Binomial_determine_population_type(n, N) ==
    IF IsNone(N) THEN [is_finite |-> FALSE, ratio |-> None]
    ELSE LET ratio == R(n, Val(N))
         IN  IF RLess(FiniteRatio, ratio)
             THEN [is_finite |-> TRUE, ratio |-> Some(ratio)]
             ELSE [is_finite |-> FALSE, ratio |-> Some(ratio)]

\* BinomialDistribution._calculate_correction_factor: math.sqrt((N - n) / (N - 1)),
\* the value under the root; the division raises when N = 1
Binomial_calculate_correction_factor(n, N) ==
    IF N - 1 = 0 THEN Raise("ZeroDivisionError", <<"division by zero">>)
    ELSE IF RLess(R(N - n, N - 1), RInt(0))
    THEN Raise("ValueError", <<"math domain error">>)
    ELSE [status |-> "ok", root |-> <<R(N - n, N - 1)>>]

\* BinomialDistribution.calculate_probability: scipy.stats.binom.pmf(x, n, p),
\* C(n,x) * p^x * (1-p)^(n-x), 0 outside the support, for 0 <= p <= 1; the
\* value is num / den_base^den_exp
Binomial_calculate_probability(n, p, x) ==
    [num |-> IF x < 0 \/ x > n THEN <<>>
             ELSE BigMulSmall(BigMul(BigPow(BigOfInt(p.num), x),
                                     BigPow(BigOfInt(p.den - p.num), n - x)),
                              Comb(n, x)),
     den_base |-> p.den,
     den_exp |-> n]

\* round(v * 100, 4) of such a value, in units of 10^-4
RoundPercent(v) ==
    BigToInt(BigRoundDivPow(BigMulSmall(v.num, 1000000), v.den_base, v.den_exp))

\* BinomialDistribution.calculate_skewness: 0 at p = 0 and p = 1, otherwise
\* (1 - 2p) / sqrt(n*p*q), carried as its sign and its square
Binomial_calculate_skewness(n, p) ==
    LET q == RSub(RInt(1), p)
        npq == RMul(RMul(RInt(n), p), q)
    IN  IF RIsZero(p) \/ p = RInt(1)
        THEN [status |-> "ok", sign |-> 0, square |-> RInt(0)]
        ELSE IF RLess(npq, RInt(0)) THEN Raise("ValueError", <<"math domain error">>)
        ELSE IF RIsZero(npq) THEN Raise("ZeroDivisionError", <<"float division by zero">>)
        ELSE LET numerator == RSub(RInt(1), RMul(RInt(2), p))
             IN  [status |-> "ok",
                  sign |-> Sign(numerator.num),
                  square |-> RDiv(RMul(numerator, numerator), npq)]

\* a float known by its sign and its square, as calculate_skewness returns it
RootOf(r) == [sign |-> Sign(r.num), square |-> RMul(r, r)]

\* a < b for two such floats
RootLess(a, b) ==
    IF a.sign # b.sign THEN a.sign < b.sign
    ELSE IF a.sign > 0 THEN RLess(a.square, b.square)
    ELSE IF a.sign < 0 THEN RLess(b.square, a.square)
    ELSE FALSE

RootLeq(a, b) == ~RootLess(b, a)

\* interpret_skewness counting -0.5 and 0.5 as significant
Binomial_interpret_skewness_closed(skewness) ==
    IF RootLeq(skewness, RootOf(R(-1, 2))) THEN "Asimetria negativa significativa"
    ELSE IF RootLeq(RootOf(R(1, 2)), skewness) THEN "Asimetria positiva significativa"
    ELSE IF RLess(skewness.square, R(1, 100)) THEN "Distribucion aproximadamente simetrica"
    ELSE IF skewness.sign < 0 THEN "Ligera asimetria negativa"
    ELSE "Ligera asimetria positiva"

\* BinomialDistribution.interpret_skewness
Binomial_interpret_skewness(skewness) ==
    IF RootLess(skewness, RootOf(R(-1, 2))) THEN "Asimetria negativa significativa"
    ELSE IF RootLess(RootOf(R(1, 2)), skewness) THEN "Asimetria positiva significativa"
    ELSE IF RootLeq(RootOf(R(-1, 2)), skewness) /\ RootLeq(skewness, RootOf(R(1, 2)))
        THEN IF RLess(skewness.square, R(1, 100))
                 THEN "Distribucion aproximadamente simetrica"
             ELSE IF RootLess(skewness, RootOf(RInt(0))) THEN "Ligera asimetria negativa"
             ELSE "Ligera asimetria positiva"
    ELSE "Simetrica"

\* BinomialDistribution.interpret_kurtosis
Binomial_interpret_kurtosis(kurtosis) ==
    IF RLess(RInt(1), kurtosis) THEN "Leptocurtica"
    ELSE IF RLess(kurtosis, RInt(-1)) THEN "Platicurtica"
    ELSE "Mesocurtica"

\* calculate_kurtosis with the zero branch taken at p = 0 only
Binomial_calculate_kurtosis_zero_only(n, p) ==
    LET q == RSub(RInt(1), p)
        npq == RMul(RMul(RInt(n), p), q)
    IN  IF RIsZero(p)
        THEN [status |-> "ok", value |-> RInt(0)]
        ELSE IF RIsZero(npq) THEN Raise("ZeroDivisionError", <<"float division by zero">>)
        ELSE [status |-> "ok",
              value |-> RDiv(RSub(RInt(1), RMul(RInt(6), RMul(p, q))), npq)]

\* BinomialDistribution.calculate_kurtosis: 0 at p = 0 and p = 1, otherwise
\* (1 - 6pq) / (n*p*q)
Binomial_calculate_kurtosis(n, p) ==
    LET q == RSub(RInt(1), p)
        npq == RMul(RMul(RInt(n), p), q)
    IN  IF RIsZero(p) \/ p = RInt(1)
        THEN [status |-> "ok", value |-> RInt(0)]
        ELSE IF RIsZero(npq) THEN Raise("ZeroDivisionError", <<"float division by zero">>)
        ELSE [status |-> "ok",
              value |-> RDiv(RSub(RInt(1), RMul(RInt(6), RMul(p, q))), npq)]

\* get_probabilities stopping at n - 1
Binomial_get_probabilities_short(n, p) ==
    [x_values |-> [i \in 1 .. n |-> i - 1],
     probabilities |->
         [i \in 1 .. n |->
             RoundPercent(Binomial_calculate_probability(n, p, i - 1))]]

\* BinomialDistribution.get_probabilities: list(range(n + 1)) and, for each x,
\* round(pmf * 100, 4) in units of 10^-4
Binomial_get_probabilities(n, p) ==
    [x_values |-> [i \in 1 .. (n + 1) |-> i - 1],
     probabilities |->
         [i \in 1 .. (n + 1) |->
             RoundPercent(Binomial_calculate_probability(n, p, i - 1))]]

\* BinomialDistribution.calculate_mean
Binomial_calculate_mean(n, p) == RMul(RInt(n), p)

\* BinomialDistribution.calculate_variance: n * p * (1 - p), as its factors
Binomial_calculate_variance(n, p) == <<RInt(n), p, RSub(RInt(1), p)>>

\* BinomialDistribution.calculate_std: (std, adjusted_std), each the value
\* under its root; adjusted_std is None unless N is given and n / N > 0.05
Binomial_calculate_std(n, p, N) ==
    LET variance == Binomial_calculate_variance(n, p)
    IN  IF ~IsNone(N) /\ RLess(FiniteRatio, R(n, Val(N)))
        THEN LET correction == Binomial_calculate_correction_factor(n, Val(N))
             IN  IF ~Ok(correction) THEN correction
                 ELSE [status |-> "ok",
                       std |-> [root |-> variance],
                       adjusted_std |-> Some([root |-> variance \o correction.root])]
        ELSE [status |-> "ok", std |-> [root |-> variance], adjusted_std |-> None]

\* `if adjusted_std`: None and 0.0 are both false
Truthy(o) == ~IsNone(o) /\ ~PIsZero(Val(o).root)

\* 'adjusted_std': round(adjusted_std, 6) if adjusted_std else None
Binomial_adjusted_std_field(adjusted_std) ==
    IF Truthy(adjusted_std) THEN adjusted_std ELSE None

\* the stores of calculate with is_finite never going back to False
Binomial_store_sticky(self, n, p, x, N, is_finite) ==
    [class |-> self.class, n |-> Some(n), p |-> Some(p), x |-> x, N |-> N,
     is_finite |-> self.is_finite \/ is_finite]

\* the stores of calculate: self.n, self.p, self.x, self.N and self.is_finite
Binomial_store(self, n, p, x, N, is_finite) ==
    [class |-> self.class, n |-> Some(n), p |-> Some(p), x |-> x, N |-> N,
     is_finite |-> is_finite]

\* BinomialDistribution.calculate on the instance self:
\* [self |-> the instance afterwards, out |-> the result or the error].
\* Of the result dictionary the model keeps inputs, population_type,
\* population_ratio and, of statistics, mean, variance, std, adjusted_std and
\* correction_factor; mean is rounded as the code rounds it, the roots and the
\* variance are kept exact.
Binomial_calculate(self, n, p, x, N) ==
    LET valid == Binomial_validate_inputs(n, p, x, N)
    IN  IF ~Ok(valid) THEN [self |-> self, out |-> valid]
        ELSE
        LET pop == Binomial_determine_population_type(n, N)
            stored == Binomial_store(self, n, p, x, N, pop.is_finite)
            mean == Binomial_calculate_mean(n, p)
            sd == Binomial_calculate_std(n, p, N)
        IN  IF ~Ok(sd) THEN [self |-> stored, out |-> sd]
            ELSE
            \* p in (0, 1) and n > 0 here, so the divisions of calculate_skewness
            \* and calculate_kurtosis by n*p*q are divisions by a positive number
            LET cf == IF stored.is_finite /\ ~IsNone(N) /\ Val(N) # 0
                      THEN Binomial_calculate_correction_factor(n, Val(N))
                      ELSE [status |-> "ok", root |-> <<>>]
            IN  IF ~Ok(cf) THEN [self |-> stored, out |-> cf]
                ELSE [self |-> stored,
                      out |-> [status |-> "ok",
                               inputs |-> [n |-> n, p |-> p, x |-> x, N |-> N],
                               population_type |->
                                   IF stored.is_finite THEN "Finita" ELSE "Infinita",
                               population_ratio |-> pop.ratio,
                               statistics |->
                                   [mean |-> Round(mean, 6),
                                    variance |-> Binomial_calculate_variance(n, p),
                                    std |-> sd.std,
                                    adjusted_std |-> Binomial_adjusted_std_field(sd.adjusted_std),
                                    correction_factor |->
                                        IF stored.is_finite /\ ~IsNone(N) /\ Val(N) # 0
                                        THEN Some([root |-> cf.root])
                                        ELSE None],
                               has_probability_x |-> ~IsNone(x)]]

---------------------------------------------------------------------------
(* services/distributions.py: HypergeometricDistribution *)

\* HypergeometricDistribution.__init__
HypergeometricDistribution ==
    [class |-> "HypergeometricDistribution",
     N |-> None, K |-> None, n |-> None, x |-> None]

\* _validate_inputs without the check of x against K
Hypergeometric_validate_inputs_no_K_bound(N, K, n, x) ==
    IF N <= 0
    THEN Raise("ValueError", <<"El tamano de la poblacion (N) debe ser mayor que 0">>)
    ELSE IF K < 0
    THEN Raise("ValueError", <<"El numero de exitos en la poblacion (K) no puede ser negativo">>)
    ELSE IF K > N
    THEN Raise("ValueError", <<"El numero de exitos en la poblacion (K) no puede ser mayor que N">>)
    ELSE IF n <= 0
    THEN Raise("ValueError", <<"El tamano de la muestra (n) debe ser mayor que 0">>)
    ELSE IF n > N
    THEN Raise("ValueError", <<"El tamano de la muestra (n) no puede ser mayor que la poblacion (N)">>)
    ELSE IF IsNone(x) THEN [status |-> "ok"]
    ELSE IF Val(x) < 0
    THEN Raise("ValueError", <<"El numero de exitos en la muestra (x) no puede ser negativo">>)
    ELSE IF Val(x) > n
    THEN Raise("ValueError", <<"El numero de exitos en la muestra (x) no puede ser mayor que", n>>)
    ELSE [status |-> "ok"]

\* HypergeometricDistribution._validate_inputs: the error raised, or "ok"
Hypergeometric_validate_inputs(N, K, n, x) ==
    IF N <= 0
    THEN Raise("ValueError", <<"El tamano de la poblacion (N) debe ser mayor que 0">>)
    ELSE IF K < 0
    THEN Raise("ValueError", <<"El numero de exitos en la poblacion (K) no puede ser negativo">>)
    ELSE IF K > N
    THEN Raise("ValueError", <<"El numero de exitos en la poblacion (K) no puede ser mayor que N">>)
    ELSE IF n <= 0
    THEN Raise("ValueError", <<"El tamano de la muestra (n) debe ser mayor que 0">>)
    ELSE IF n > N
    THEN Raise("ValueError", <<"El tamano de la muestra (n) no puede ser mayor que la poblacion (N)">>)
    ELSE IF IsNone(x) THEN [status |-> "ok"]
    ELSE IF Val(x) < 0
    THEN Raise("ValueError", <<"El numero de exitos en la muestra (x) no puede ser negativo">>)
    ELSE IF Val(x) > n
    THEN Raise("ValueError", <<"El numero de exitos en la muestra (x) no puede ser mayor que", n>>)
    ELSE IF Val(x) > K
    THEN Raise("ValueError", <<"El numero de exitos en la muestra (x) no puede ser mayor que K=", K>>)
    ELSE [status |-> "ok"]

\* HypergeometricDistribution.calculate_probability: scipy.stats.hypergeom.pmf(x, N, K, n),
\* C(K,x) * C(N-K,n-x) / C(N,n), 0 outside the support
Hypergeometric_calculate_probability(N, K, n, x) ==
    R(Comb(K, x) * Comb(N - K, n - x), Comb(N, n))

\* HypergeometricDistribution.calculate_mean: n * (K / N)
Hypergeometric_calculate_mean(N, K, n) == RMul(RInt(n), R(K, N))

\* calculate_variance without the finite-population factor
Hypergeometric_calculate_variance_uncorrected(N, K, n) ==
    IF N - 1 = 0 THEN Raise("ZeroDivisionError", <<"division by zero">>)
    ELSE LET p == R(K, N)
             q == RSub(RInt(1), p)
         IN  [status |-> "ok", value |-> RMul(RMul(RInt(n), p), q)]

\* HypergeometricDistribution.calculate_variance: n * p * q * ((N - n) / (N - 1));
\* the last division raises when N = 1
Hypergeometric_calculate_variance(N, K, n) ==
    IF N - 1 = 0 THEN Raise("ZeroDivisionError", <<"division by zero">>)
    ELSE LET p == R(K, N)
             q == RSub(RInt(1), p)
         IN  [status |-> "ok",
              value |-> RMul(RMul(RMul(RInt(n), p), q), R(N - n, N - 1))]

\* HypergeometricDistribution.calculate_std: math.sqrt(variance), the value
\* under the root
Hypergeometric_calculate_std(N, K, n) ==
    LET variance == Hypergeometric_calculate_variance(N, K, n)
    IN  IF ~Ok(variance) THEN variance
        ELSE IF RLess(variance.value, RInt(0))
        THEN Raise("ValueError", <<"math domain error">>)
        ELSE [status |-> "ok", root |-> <<variance.value>>]

\* HypergeometricDistribution.calculate_skewness.  The value
\* (N-2K) * sqrt(N-1) * (N-2n) / (sqrt(n*K*(N-K)*(N-n)) * (N-2)) is carried as
\* its sign and its square.
Hypergeometric_calculate_skewness(N, K, n) ==
    IF N = 1 THEN [status |-> "ok", sign |-> 0, square |-> RInt(0)]
    ELSE IF n * K * (N - K) * (N - n) < 0 \/ N - 1 < 0
    THEN Raise("ValueError", <<"math domain error">>)
    ELSE IF n * K * (N - K) * (N - n) * (N - 2) = 0
    THEN [status |-> "ok", sign |-> 0, square |-> RInt(0)]
    ELSE [status |-> "ok",
          sign |-> Sign((N - 2 * K) * (N - 2 * n)) * Sign(N - 2),
          square |-> R((N - 2 * K) * (N - 2 * K) * (N - 1) * (N - 2 * n) * (N - 2 * n),
                       n * K * (N - K) * (N - n) * (N - 2) * (N - 2))]

\* HypergeometricDistribution.calculate_kurtosis, term by term; the divisions
\* by n * (N - n) raise when n = N
Hypergeometric_calculate_kurtosis(N, K, n) ==
    IF N <= 3 THEN [status |-> "ok", value |-> RInt(0)]
    ELSE IF n * (N - n) = 0 THEN Raise("ZeroDivisionError", <<"division by zero">>)
    ELSE
    LET term1 == RMul(RInt(N - 1),
                      RSub(RInt(N * (N + 1)),
                           R(6 * K * (N - K) * (N - n), n * (N - n))))
        term2 == R(3 * n * K * (N - K) * (N - n), n * (N - n))
        numerator == RSub(term1, term2)
        denominator == R(n * K * (N - K) * (N - n) * (N - 2) * (N - 3), N - 1)
    IN  IF RIsZero(denominator) THEN [status |-> "ok", value |-> RInt(0)]
        ELSE [status |-> "ok",
              value |-> RDiv(RMul(RInt(N + 1), numerator), denominator)]

\* the loop of calculate_median stopping only when the cumulative probability
\* exceeds 0.5
RECURSIVE MedianWalk_strict(_, _, _, _, _, _)
MedianWalk_strict(N, K, n, x, cumulative, floor_mean) ==
    IF x > Min(n, K) THEN floor_mean
    ELSE LET c == RAdd(cumulative, Hypergeometric_calculate_probability(N, K, n, x))
         IN  IF RLess(R(1, 2), c) THEN x
             ELSE MedianWalk_strict(N, K, n, x + 1, c, floor_mean)

\* the loop of calculate_median from x on, cumulative being the sum so far:
\* the first x whose cumulative probability reaches 0.5, or floor_mean
RECURSIVE MedianWalk(_, _, _, _, _, _)
MedianWalk(N, K, n, x, cumulative, floor_mean) ==
    IF x > Min(n, K) THEN floor_mean
    ELSE LET c == RAdd(cumulative, Hypergeometric_calculate_probability(N, K, n, x))
         IN  IF RLeq(R(1, 2), c) THEN x
             ELSE MedianWalk(N, K, n, x + 1, c, floor_mean)

\* HypergeometricDistribution.calculate_median
Hypergeometric_calculate_median(N, K, n) ==
    LET mean == Hypergeometric_calculate_mean(N, K, n)
        floor_mean == mean.num \div mean.den
    IN  MedianWalk(N, K, n, 0, RInt(0), floor_mean)

\* the result of interpret_skewness_by_median for its mean, its median, the
\* float of the mean and the float 0.1
Hypergeometric_interpret_by_median(mean, median, float_mean, tenth) ==
    [interpretation |->
         IF FloatLess(float_mean, FloatSub(FloatOfInt(median), tenth))
             THEN "Sesgo Negativo"
         ELSE IF FloatLess(FloatAdd(FloatOfInt(median), tenth), float_mean)
             THEN "Sesgo Positivo"
         ELSE "Sesgo Nulo",
     mean |-> Round(mean, 6),
     median |-> median]

\* HypergeometricDistribution.interpret_skewness_by_median:
\* (interpretation, round(mean, 6), median); the comparisons are those of the
\* floats n * (K / N) and median -/+ 0.1
Hypergeometric_interpret_skewness_by_median(N, K, n) ==
    Hypergeometric_interpret_by_median(
        Hypergeometric_calculate_mean(N, K, n),
        Hypergeometric_calculate_median(N, K, n),
        FloatMulInt(n, FloatDivInt(K, N)),
        FloatDivInt(1, 10))

\* HypergeometricDistribution.interpret_kurtosis
Hypergeometric_interpret_kurtosis(kurtosis) ==
    IF RLess(RInt(1), kurtosis) THEN "Leptocurtica"
    ELSE IF RLess(kurtosis, RInt(-1)) THEN "Platicurtica"
    ELSE "Mesocurtica"

\* get_probabilities running x up to n
Hypergeometric_get_probabilities_to_n(N, K, n) ==
    [x_values |-> [i \in 1 .. (n + 1) |-> i - 1],
     probabilities |->
         [i \in 1 .. (n + 1) |->
             Round(RMul(RInt(100), Hypergeometric_calculate_probability(N, K, n, i - 1)), 4)]]

\* HypergeometricDistribution.get_probabilities: list(range(min(n, K) + 1))
\* and, for each x, round(pmf * 100, 4) in units of 10^-4
Hypergeometric_get_probabilities(N, K, n) ==
    LET max_x == Min(n, K)
    IN  [x_values |-> [i \in 1 .. (max_x + 1) |-> i - 1],
         probabilities |->
             [i \in 1 .. (max_x + 1) |->
                 Round(RMul(RInt(100),
                            Hypergeometric_calculate_probability(N, K, n, i - 1)), 4)]]

\* what calculate returns for valid inputs: the instance stored holds them, and
\* variance, std, skewness, kurtosis and interp are what the methods returned
Hypergeometric_calculate_valid(stored, N, K, n, x, variance, std, skewness, kurtosis, interp) ==
    IF ~Ok(variance) THEN [self |-> stored, out |-> variance]
    ELSE IF ~Ok(std) THEN [self |-> stored, out |-> std]
    ELSE IF ~Ok(skewness) THEN [self |-> stored, out |-> skewness]
    ELSE IF ~Ok(kurtosis) THEN [self |-> stored, out |-> kurtosis]
    ELSE [self |-> stored,
          out |-> [status |-> "ok",
                   inputs |-> [N |-> N, K |-> K, n |-> n, x |-> x,
                               p |-> Round(R(K, N), 6)],
                   population_type |-> "Finita",
                   sample_ratio |-> Round(R(n, N), 4),
                   statistics |->
                       [mean |-> Round(Hypergeometric_calculate_mean(N, K, n), 6),
                        median |-> interp.median,
                        variance |-> Round(variance.value, 6),
                        std |-> [root |-> std.root],
                        skewness |-> [sign |-> skewness.sign,
                                      square |-> skewness.square],
                        kurtosis |-> Round(kurtosis.value, 6)],
                   interpretations |->
                       [skewness |-> interp.interpretation,
                        kurtosis |-> Hypergeometric_interpret_kurtosis(kurtosis.value)],
                   probability_x |->
                       IF IsNone(x) THEN None
                       ELSE Some(Round(Hypergeometric_calculate_probability(N, K, n, Val(x)), 6)),
                   probability_x_pct |->
                       IF IsNone(x) THEN None
                       ELSE Some(Round(RMul(RInt(100),
                            Hypergeometric_calculate_probability(N, K, n, Val(x))), 4))]]

\* HypergeometricDistribution.calculate on the instance self:
\* [self |-> the instance afterwards, out |-> the result or the error].
\* std and skewness are kept exact, the other numbers are rounded as the code
\* rounds them.
Hypergeometric_calculate(self, N, K, n, x) ==
    LET valid == Hypergeometric_validate_inputs(N, K, n, x)
    IN  IF ~Ok(valid) THEN [self |-> self, out |-> valid]
        ELSE Hypergeometric_calculate_valid(
                 [class |-> self.class, N |-> Some(N), K |-> Some(K),
                  n |-> Some(n), x |-> x],
                 N, K, n, x,
                 Hypergeometric_calculate_variance(N, K, n),
                 Hypergeometric_calculate_std(N, K, n),
                 Hypergeometric_calculate_skewness(N, K, n),
                 Hypergeometric_calculate_kurtosis(N, K, n),
                 Hypergeometric_interpret_skewness_by_median(N, K, n))

---------------------------------------------------------------------------
(* services/distributions.py: DistributionFactory *)

\* list(cls._distributions.keys())
Keys(ds) == [i \in DOMAIN ds |-> ds[i].name]

HasKey(ds, name) == \E i \in DOMAIN ds : ds[i].name = name

Lookup(ds, name) == ds[CHOOSE i \in DOMAIN ds : ds[i].name = name].class

\* cls(): the instance a registered class constructs
Instantiate(class) ==
    IF class = "BinomialDistribution" THEN BinomialDistribution
    ELSE IF class = "HypergeometricDistribution" THEN HypergeometricDistribution
    ELSE [class |-> class]

\* register storing the name as given, without lower-casing it
Factory_register_name_as_given(ds, name, distribution_class) ==
    LET key == name
    IN  IF HasKey(ds, key)
        THEN [i \in DOMAIN ds |->
                 IF ds[i].name = key
                 THEN [name |-> key, class |-> distribution_class]
                 ELSE ds[i]]
        ELSE Append(ds, [name |-> key, class |-> distribution_class])

\* DistributionFactory.register: the registry afterwards.  Assigning to a key
\* the dictionary holds keeps the key's place.
Factory_register(ds, name, distribution_class) ==
    LET key == Lower(name)
    IN  IF HasKey(ds, key)
        THEN [i \in DOMAIN ds |->
                 IF ds[i].name = key
                 THEN [name |-> key, class |-> distribution_class]
                 ELSE ds[i]]
        ELSE Append(ds, [name |-> key, class |-> distribution_class])

\* create looking the name up as given, without lower-casing it
Factory_create_case_sensitive(ds, distribution_type) ==
    LET name == distribution_type
    IN  IF ~HasKey(ds, name)
        THEN Raise("ValueError", <<"Distribucion no disponible. Opciones:", name, Keys(ds)>>)
        ELSE [status |-> "ok", instance |-> Instantiate(Lookup(ds, name))]

\* DistributionFactory.create: the new instance, or the error with the
\* lower-cased name and the names it lists
Factory_create(ds, distribution_type) ==
    LET name == Lower(distribution_type)
    IN  IF ~HasKey(ds, name)
        THEN Raise("ValueError", <<"Distribucion no disponible. Opciones:", name, Keys(ds)>>)
        ELSE [status |-> "ok", instance |-> Instantiate(Lookup(ds, name))]

\* DistributionFactory.get_available_distributions
Factory_get_available_distributions(ds) == Keys(ds)

---------------------------------------------------------------------------
(* services/model_selector.py: parameter shaping and the orchestrator *)

\* ModelSelector.get_distribution_params
get_distribution_params(N, K, n, x) ==
    LET decision == decide(N, K, n)
    IN  IF ~Ok(decision) THEN decision
        ELSE
        LET p == R(K, N)
            rounded == R(Round(p, 6), 1000000)
        IN  [status |-> "ok",
             decision |-> decision,
             N |-> N, K |-> K, n |-> n, x |-> x,
             p |-> rounded,
             distribution_params |->
                 IF decision.distribution_type = BINOMIAL
                 THEN [kind |-> "npxN", n |-> n, p |-> rounded, x |-> x, N |-> Some(N)]
                 ELSE [kind |-> "NKnx", N |-> N, K |-> K, n |-> n, x |-> x]]

\* distribution.calculate(**dist_params) on an instance of either class; an
\* engine given the other engine's parameters compares None with a number
Engine_calculate(self, params) ==
    IF self.class = "BinomialDistribution" /\ params.kind = "npxN"
    THEN Binomial_calculate(self, params.n, params.p, params.x, params.N)
    ELSE IF self.class = "HypergeometricDistribution" /\ params.kind = "NKnx"
    THEN Hypergeometric_calculate(self, params.N, params.K, params.n, params.x)
    ELSE [self |-> self, out |-> Raise("TypeError", <<"unsupported operand">>)]

\* the sum of the first i entries of a series
RECURSIVE cumulative_sum(_, _)
cumulative_sum(probabilities, i) ==
    IF i = 0 THEN 0 ELSE cumulative_sum(probabilities, i - 1) + probabilities[i]

\* the cumulative series with every entry left out of its own sum
cumulative_probs_exclusive(probabilities) ==
    [i \in 1 .. Len(probabilities) |->
        Round(R(cumulative_sum(probabilities, i - 1), 10000), 4)]

\* the loop over the probability series: cumulative_sum += prob, then
\* round(cumulative_sum, 4) appended; the entries are in units of 10^-4
cumulative_probs(probabilities) ==
    [i \in 1 .. Len(probabilities) |->
        Round(R(cumulative_sum(probabilities, i), 10000), 4)]

\* distribution.get_probabilities(**dist_params without x) on either engine
Engine_get_probabilities(self, params) ==
    IF self.class = "BinomialDistribution"
    THEN Binomial_get_probabilities(params.n, params.p)
    ELSE Hypergeometric_get_probabilities(params.N, params.K, params.n)

\* chart_data of the result
chart_data(self, params) ==
    LET series == Engine_get_probabilities(self, params)
    IN  [x_values |-> series.x_values,
         probabilities |-> series.probabilities,
         cumulative |-> cumulative_probs(series.probabilities)]

\* the result of the orchestrator once the engine returned calc
auto_selection_result(params, calc, N, K, n, x) ==
    IF ~Ok(calc.out) THEN calc
    ELSE [self |-> calc.self,
          out |-> [status |-> "ok",
                   model_decision |->
                       [distribution_type |-> params.decision.distribution_type,
                        distribution_name |->
                            IF params.decision.distribution_type = HYPERGEOMETRIC
                            THEN "Hipergeometrica" ELSE "Binomial",
                        sample_ratio |-> params.decision.sample_ratio,
                        threshold |-> params.decision.threshold_used,
                        recommendation |-> params.decision.recommendation],
                   results |-> calc.out,
                   chart_data |-> chart_data(calc.self, params.distribution_params),
                   input_params |->
                       [N |-> N, K |-> K, n |-> n, x |-> x,
                        p |-> Round(R(K, N), 6)]]]

\* the orchestrator once DistributionFactory.create returned distribution
auto_selection_on(params, distribution, N, K, n, x) ==
    IF ~Ok(distribution) THEN [self |-> NoEngine, out |-> distribution]
    ELSE auto_selection_result(
             params,
             Engine_calculate(distribution.instance, params.distribution_params),
             N, K, n, x)

\* the orchestrator once get_distribution_params returned params
auto_selection_of(ds, params, N, K, n, x) ==
    IF ~Ok(params) THEN [self |-> NoEngine, out |-> params]
    ELSE auto_selection_on(
             params, Factory_create(ds, params.decision.distribution_type),
             N, K, n, x)

\* ModelSelector.calculate_with_auto_selection with the registry ds:
\* [self |-> the engine instance it created, out |-> the result or the error].
\* The result has model_decision, results, chart_data and input_params.
calculate_with_auto_selection(ds, N, K, n, x) ==
    auto_selection_of(ds, get_distribution_params(N, K, n, x), N, K, n, x)

---------------------------------------------------------------------------
(* distribuciones/views.py and data_manager/views.py: the views that show *)
(* a calculation, for a valid form                                         *)

\* the numerators of pmf(0), ..., pmf(x) added up
RECURSIVE binom_pmf_sum(_, _, _)
binom_pmf_sum(n, p, x) ==
    IF x < 0 THEN <<>>
    ELSE BigAdd(Binomial_calculate_probability(n, p, x).num, binom_pmf_sum(n, p, x - 1))

\* round(float(sum(float(stats.binom.pmf(i, n, p)) for i in range(x + 1)) * 100), 4)
direct_cumulative_prob_x(n, p, x) ==
    RoundPercent([num |-> binom_pmf_sum(n, p, x), den_base |-> p.den, den_exp |-> n])

\* range_probabilities: for the first count entries of a series, the entry and
\* the rounded running sum
range_probabilities(x_values, probabilities, count) ==
    [i \in 1 .. count |->
        [x |-> x_values[i],
         p |-> Round(R(probabilities[i], 10000), 4),
         cumulative |-> Round(R(cumulative_sum(probabilities, i), 10000), 4)]]

\* what binomial_view renders once calculate returned calc and
\* get_probabilities returned series
binomial_view_context(calc, series, x, cumulative_prob_x) ==
    [self |-> calc.self,
     out |-> [status |-> "ok",
              results |-> calc.out,
              cumulative_prob_x |-> cumulative_prob_x,
              range_probabilities |->
                  IF IsNone(x) THEN <<>>
                  ELSE range_probabilities(series.x_values,
                                           series.probabilities, Val(x) + 1),
              chart_data |->
                  [values |-> series.probabilities,
                   cumulative |-> cumulative_probs(series.probabilities),
                   x_values |-> series.x_values,
                   x_limit |-> x,
                   cumulative_prob_x |-> cumulative_prob_x]]]

\* binomial_view once the engine returned calc
binomial_view_of(calc, n, p, x) ==
    IF ~Ok(calc.out) THEN calc
    ELSE binomial_view_context(
             calc, Binomial_get_probabilities(n, p), x,
             IF IsNone(x) THEN None ELSE Some(direct_cumulative_prob_x(n, p, Val(x))))

\* binomial_view once DistributionFactory.create returned distribution
binomial_view_on(distribution, n, p, x, N) ==
    IF ~Ok(distribution) THEN [self |-> NoEngine, out |-> distribution]
    ELSE binomial_view_of(Binomial_calculate(distribution.instance, n, p, x, N), n, p, x)

\* binomial_view on a POST with a valid form: what it renders of results and
\* chart_data, or the error it lists
binomial_view(ds, n, p, x, N) ==
    binomial_view_on(Factory_create(ds, BINOMIAL), n, p, x, N)

\* what calculate_auto_view renders of the result's chart_data; looked_up is
\* x is not None and x < len(chart_info['cumulative'])
calculate_auto_view_context(calculation, chart_info, x, looked_up) ==
    [self |-> calculation.self,
     out |-> [status |-> "ok",
              results |-> calculation.out.results,
              model_decision |-> calculation.out.model_decision,
              input_params |-> calculation.out.input_params,
              range_probabilities |->
                  IF looked_up
                  THEN range_probabilities(chart_info.x_values,
                                           chart_info.probabilities,
                                           Min(Val(x) + 1, Len(chart_info.x_values)))
                  ELSE <<>>,
              chart_data |->
                  [values |-> chart_info.probabilities,
                   cumulative |-> chart_info.cumulative,
                   x_values |-> chart_info.x_values,
                   x_limit |-> x,
                   cumulative_prob_x |->
                       IF looked_up THEN Some(chart_info.cumulative[Val(x) + 1])
                       ELSE None,
                   distribution_type |->
                       calculation.out.model_decision.distribution_type]]]

\* calculate_auto_view once the orchestrator returned calculation
calculate_auto_view_of(calculation, x) ==
    IF ~Ok(calculation.out) THEN calculation
    ELSE calculate_auto_view_context(
             calculation, calculation.out.chart_data, x,
             ~IsNone(x) /\ Val(x) < Len(calculation.out.chart_data.cumulative))

\* calculate_auto_view on a POST with a valid form holding N and K: what it
\* renders of results and chart_data, or the error it lists
calculate_auto_view_post(ds, N, K, n, x) ==
    calculate_auto_view_of(calculate_with_auto_selection(ds, N, K, n, x), x)

---------------------------------------------------------------------------
(* The state machine *)

\* DistributionFactory._distributions as the class body builds it
InitialDistributions ==
    << [name |-> BINOMIAL, class |-> "BinomialDistribution"],
       [name |-> HYPERGEOMETRIC, class |-> "HypergeometricDistribution"] >>

\* integer arguments around the valid range
IntArgs == -1 .. (MaxN + 1)
OptIntArgs == {None} \cup {Some(v) : v \in IntArgs}

SelectorArgs ==
    [kind : {"NKnx"}, N : -1 .. MaxN, K : IntArgs, n : IntArgs, x : OptIntArgs]

\* arguments of BinomialDistribution.calculate
BinomialArgs ==
    [kind : {"npxN"},
     n : -1 .. (MaxBinomSample + 1),
     p : {R(i, PDen) : i \in -1 .. (PDen + 1)},
     x : {None} \cup {Some(v) : v \in -1 .. (MaxBinomSample + 2)},
     N : {None} \cup {Some(v) : v \in -1 .. MaxBinomN}]

\* arguments of decide alone, on both sides of n / N = 0.20 where the ratio
\* rounded to 4 decimals is 0.2
ThresholdArgs ==
    [kind : {"NKn"}, N : {4000, 4001}, K : {0, 1}, n : {800, 801}]

Init ==
    /\ args \in SelectorArgs \cup BinomialArgs \cup ThresholdArgs
    /\ call = "none"
    /\ result = [status |-> "none"]
    /\ engine = NoEngine
    /\ pc = NoThreads
    /\ frame = NoThreads
    /\ session = NoSession
    /\ distributions = InitialDistributions

\* the call returns r.out and leaves the instance r.self behind
Returns(r) ==
    /\ result' = r.out
    /\ engine' = r.self

\* ModelSelector.decide(N, K, n)
Decide ==
    /\ call = "none"
    /\ args.kind \in {"NKnx", "NKn"}
    /\ call' = "decide"
    /\ result' = decide(args.N, args.K, args.n)
    /\ UNCHANGED <<args, engine, distributions>>
    /\ UNCHANGED context

\* BinomialDistribution().calculate(n=n, p=p, x=x, N=N), on a new instance as
\* every caller of the repository makes it
BinomialCalculate ==
    /\ call = "none"
    /\ args.kind = "npxN"
    /\ Returns(Binomial_calculate(BinomialDistribution, args.n, args.p, args.x, args.N))
    /\ call' = "BinomialDistribution.calculate"
    /\ UNCHANGED <<args, distributions>>
    /\ UNCHANGED context

\* HypergeometricDistribution().calculate(N=N, K=K, n=n, x=x), on a new instance
HypergeometricCalculate ==
    /\ call = "none"
    /\ args.kind = "NKnx"
    /\ Returns(Hypergeometric_calculate(HypergeometricDistribution,
                                         args.N, args.K, args.n, args.x))
    /\ call' = "HypergeometricDistribution.calculate"
    /\ UNCHANGED <<args, distributions>>
    /\ UNCHANGED context

\* ModelSelector.calculate_with_auto_selection(N, K, n, x)
CalculateWithAutoSelection ==
    /\ call = "none"
    /\ args.kind = "NKnx"
    /\ Returns(calculate_with_auto_selection(distributions,
                                              args.N, args.K, args.n, args.x))
    /\ call' = "calculate_with_auto_selection"
    /\ UNCHANGED <<args, distributions>>
    /\ UNCHANGED context

Next ==
    \/ Decide
    \/ BinomialCalculate
    \/ HypergeometricCalculate
    \/ CalculateWithAutoSelection

Spec == Init /\ [][Next]_vars

---------------------------------------------------------------------------
(* The factory's registry as a state machine *)

POISSON == <<"p", "o", "i", "s", "s", "o", "n">>
NORMAL == <<"n", "o", "r", "m", "a", "l">>

\* the letter-case variants of the name s
CaseVariants(s) ==
    {[i \in DOMAIN s |-> IF i \in U THEN CharUpper(s[i]) ELSE s[i]] :
        U \in SUBSET (1 .. Min(Len(s), MaxCaseLetters))} \cup {Upper(s)}

\* names given to register
RegisterNames == UNION {CaseVariants(s) : s \in {BINOMIAL, HYPERGEOMETRIC, POISSON}}

\* names given to create; no variant of NORMAL is ever registered
CreateNames == RegisterNames \cup CaseVariants(NORMAL)

\* classes given to register
Classes == {"BinomialDistribution", "HypergeometricDistribution", "PoissonDistribution"}

FactoryInit ==
    /\ args = [kind |-> "factory"]
    /\ call = "none"
    /\ result = [status |-> "none"]
    /\ engine = NoEngine
    /\ pc = NoThreads
    /\ frame = NoThreads
    /\ session = NoSession
    /\ distributions = InitialDistributions

\* DistributionFactory.register(name, distribution_class)
Register ==
    \E name \in RegisterNames, class \in Classes :
        /\ args' = [kind |-> "factory", name |-> name, class |-> class]
        /\ call' = "register"
        /\ distributions' = Factory_register(distributions, name, class)
        /\ result' = [status |-> "ok"]
        /\ engine' = NoEngine
        /\ UNCHANGED context

\* DistributionFactory.create(distribution_type)
Create ==
    \E name \in CreateNames :
        LET r == Factory_create(distributions, name)
        IN  /\ args' = [kind |-> "factory", name |-> name]
            /\ call' = "create"
            /\ result' = r
            /\ engine' = IF Ok(r) THEN r.instance ELSE NoEngine
            /\ UNCHANGED distributions
            /\ UNCHANGED context

\* DistributionFactory.get_available_distributions()
GetAvailableDistributions ==
    /\ args' = [kind |-> "factory"]
    /\ call' = "get_available_distributions"
    /\ result' = [status |-> "ok",
                  names |-> Factory_get_available_distributions(distributions)]
    /\ engine' = NoEngine
    /\ UNCHANGED distributions
    /\ UNCHANGED context

FactoryNext ==
    \/ Register
    \/ Create
    \/ GetAvailableDistributions

FactorySpec == FactoryInit /\ [][FactoryNext]_vars

---------------------------------------------------------------------------
(* DataProcessor.analyze_categorical_column *)

\* rows of the data frames analysed
MaxRows == 3

\* cell values: a text, or an integer as a spreadsheet cell may hold it
StrCell(t) == [type |-> "str", text |-> t]
IntCell(v) == [type |-> "int", val |-> v]

Digits == <<"0", "1", "2", "3", "4", "5", "6", "7", "8", "9">>

\* str(k) of a cell value: a text is itself, an integer is its decimal digits
RECURSIVE IntStr(_)
IntStr(i) == IF i < 10 THEN Digits[i + 1] ELSE IntStr(i \div 10) \o Digits[(i % 10) + 1]

Str(v) == IF v.type = "str" THEN v.text ELSE IntStr(v.val)

\* Series.dropna(): the non-null cells, unwrapped, in row order
dropna(column) ==
    LET kept == SelectSeq(column, LAMBDA c : ~IsNone(c))
    IN  [i \in DOMAIN kept |-> Val(kept[i])]

\* the distinct values of a sequence, by first appearance
RECURSIVE Unique(_, _)
Unique(s, seen) ==
    IF s = <<>> THEN seen
    ELSE IF \E i \in DOMAIN seen : seen[i] = Head(s)
         THEN Unique(Tail(s), seen)
         ELSE Unique(Tail(s), Append(seen, Head(s)))

\* one (value, count) item put into a list sorted by descending count, after
\* the items with the same count
RECURSIVE InsertByCount(_, _)
InsertByCount(sorted, item) ==
    IF sorted = <<>> THEN <<item>>
    ELSE IF Head(sorted).count >= item.count
         THEN <<Head(sorted)>> \o InsertByCount(Tail(sorted), item)
         ELSE <<item>> \o sorted

RECURSIVE SortByCount(_, _)
SortByCount(items, sorted) ==
    IF items = <<>> THEN sorted
    ELSE SortByCount(Tail(items), InsertByCount(sorted, Head(items)))

\* Series.value_counts(): each distinct value with its number of rows, most
\* frequent first, equally frequent values by first appearance
value_counts(col_data) ==
    LET keys == Unique(col_data, <<>>)
        items == [i \in DOMAIN keys |->
                     [key |-> keys[i],
                      count |-> Cardinality({j \in DOMAIN col_data : col_data[j] = keys[i]})]]
    IN  SortByCount(items, <<>>)

\* d[key] = value on a dictionary kept as its items in insertion order
DictSet(d, key, value) ==
    IF \E i \in DOMAIN d : d[i].key = key
    THEN [i \in DOMAIN d |-> IF d[i].key = key THEN [key |-> key, value |-> value] ELSE d[i]]
    ELSE Append(d, [key |-> key, value |-> value])

\* d.get(key, default)
DictGet(d, key, default) ==
    IF \E i \in DOMAIN d : d[i].key = key
    THEN d[CHOOSE i \in DOMAIN d : d[i].key = key].value
    ELSE default

\* {str(k): int(v) for k, v in value_counts.items()}
RECURSIVE CategoriesOf(_, _)
CategoriesOf(items, d) ==
    IF items = <<>> THEN d
    ELSE CategoriesOf(Tail(items), DictSet(d, Str(Head(items).key), Head(items).count))

\* DataProcessor.analyze_categorical_column(df, column_name, success_category)
analyze_categorical_column(df, column_name, success_category) ==
    IF column_name \notin DOMAIN df
    THEN Raise("DataProcessingError", <<"La columna no existe en el archivo", column_name>>)
    ELSE LET col_data == dropna(df[column_name])
             N == Len(col_data)
         IN  IF N = 0
             THEN Raise("DataProcessingError", <<"La columna no contiene datos validos">>)
             ELSE LET categories == CategoriesOf(value_counts(col_data), <<>>)
                      K == DictGet(categories, success_category, 0)
                  IN  IF K = 0
                      THEN Raise("DataProcessingError",
                                 <<"La categoria no existe en la columna o tiene 0 ocurrencias",
                                   success_category>>)
                      ELSE [status |-> "ok", N |-> N, K |-> K, p |-> Round(R(K, N), 6),
                            categories |-> categories,
                            success_category |-> success_category,
                            column_name |-> column_name]

\* the cells of a column: null, two texts, and the integer whose digits are
\* one of the texts
Cells == {None, Some(StrCell("a")), Some(StrCell("1")), Some(IntCell(1))}

\* data frames of up to MaxRows rows with a column of labels and a column
\* that holds no value
DataFrames ==
    UNION {{[c \in {"categoria", "notas"} |->
                IF c = "categoria" THEN cells ELSE [i \in 1 .. rows |-> None]] :
              cells \in [1 .. rows -> Cells]} : rows \in 0 .. MaxRows}

AnalyzerArgs ==
    [kind : {"analyze"},
     df : DataFrames,
     column_name : {"categoria", "notas", "edad"},
     success_category : {"a", "1", "b"}]

AnalyzerInit ==
    /\ args \in AnalyzerArgs
    /\ call = "none"
    /\ result = [status |-> "none"]
    /\ engine = NoEngine
    /\ pc = NoThreads
    /\ frame = NoThreads
    /\ session = NoSession
    /\ distributions = InitialDistributions

AnalyzeCategoricalColumn ==
    /\ call = "none"
    /\ args.kind = "analyze"
    /\ call' = "analyze_categorical_column"
    /\ result' = analyze_categorical_column(args.df, args.column_name, args.success_category)
    /\ UNCHANGED <<args, engine, distributions>>
    /\ UNCHANGED context

AnalyzerNext == AnalyzeCategoricalColumn

AnalyzerSpec == AnalyzerInit /\ [][AnalyzerNext]_vars

---------------------------------------------------------------------------
(* Two threads in BinomialDistribution.calculate on one instance *)

\* sample sizes n given by the threads
MaxSharedSample == 2

Threads == {1, 2}

\* population sizes given by the threads: none, 1 (the correction factor
\* divides by N - 1), and sizes on both sides of n / N = 0.05
SharedPopulations == {None, Some(1), Some(2), Some(10), Some(60)}

ThreadArgs ==
    [n : 1 .. MaxSharedSample, p : {R(1, 2)}, x : {None}, N : SharedPopulations]

\* the arguments of thread t
ArgsOf(t) == args.calls[t]

ConcurrentInit ==
    /\ args \in [kind : {"threads"}, calls : [Threads -> ThreadArgs]]
    /\ call = "none"
    /\ result = [status |-> "none"]
    /\ engine = BinomialDistribution
    /\ distributions = InitialDistributions
    /\ pc = [t \in Threads |-> "line124"]
    /\ frame = [t \in Threads |-> [status |-> "running"]]
    /\ session = NoSession

\* line 124: self._validate_inputs(n, p, x, N)
ThreadValidate(t) ==
    /\ pc[t] = "line124"
    /\ LET a == ArgsOf(t)
           valid == Binomial_validate_inputs(a.n, a.p, a.x, a.N)
       IN  IF Ok(valid)
           THEN /\ pc' = [pc EXCEPT ![t] = "line126"]
                /\ UNCHANGED frame
           ELSE /\ pc' = [pc EXCEPT ![t] = "done"]
                /\ frame' = [frame EXCEPT ![t] = valid]
    /\ UNCHANGED <<args, call, result, engine, distributions, session>>

\* lines 126-129: self.n = n; self.p = p; self.x = x; self.N = N, one
\* assignment a step
ThreadStore(t) ==
    /\ pc[t] \in {"line126", "line127", "line128", "line129"}
    /\ LET a == ArgsOf(t)
       IN  /\ engine' =
                  IF pc[t] = "line126" THEN [engine EXCEPT !.n = Some(a.n)]
                  ELSE IF pc[t] = "line127" THEN [engine EXCEPT !.p = Some(a.p)]
                  ELSE IF pc[t] = "line128" THEN [engine EXCEPT !.x = a.x]
                  ELSE [engine EXCEPT !.N = a.N]
           /\ pc' = [pc EXCEPT ![t] =
                        IF pc[t] = "line126" THEN "line127"
                        ELSE IF pc[t] = "line127" THEN "line128"
                        ELSE IF pc[t] = "line128" THEN "line129"
                        ELSE "line131"]
    /\ UNCHANGED <<args, call, result, distributions, frame, session>>

\* line 131: self.is_finite, ratio = self._determine_population_type(n, N)
ThreadDeterminePopulationType(t) ==
    /\ pc[t] = "line131"
    /\ LET a == ArgsOf(t)
           pop == Binomial_determine_population_type(a.n, a.N)
       IN  /\ engine' = [engine EXCEPT !.is_finite = pop.is_finite]
           /\ frame' = [frame EXCEPT ![t] = [status |-> "running", ratio |-> pop.ratio]]
    /\ pc' = [pc EXCEPT ![t] = "line133"]
    /\ UNCHANGED <<args, call, result, distributions, session>>

\* lines 133-136: mean, std, adjusted_std, skewness and kurtosis, from the
\* arguments alone
ThreadMoments(t) ==
    /\ pc[t] = "line133"
    /\ LET a == ArgsOf(t)
           sd == Binomial_calculate_std(a.n, a.p, a.N)
       IN  IF Ok(sd)
           THEN /\ pc' = [pc EXCEPT ![t] = "line145"]
                /\ frame' = [frame EXCEPT ![t] =
                                [status |-> "running", ratio |-> frame[t].ratio,
                                 mean |-> Binomial_calculate_mean(a.n, a.p),
                                 std |-> sd.std, adjusted_std |-> sd.adjusted_std]]
           ELSE /\ pc' = [pc EXCEPT ![t] = "done"]
                /\ frame' = [frame EXCEPT ![t] = sd]
    /\ UNCHANGED <<args, call, result, engine, distributions, session>>

\* line 145: 'population_type': 'Finita' if self.is_finite else 'Infinita'
ThreadPopulationType(t) ==
    /\ pc[t] = "line145"
    /\ frame' = [frame EXCEPT ![t] =
                    [status |-> "running", ratio |-> frame[t].ratio,
                     mean |-> frame[t].mean,
                     std |-> frame[t].std, adjusted_std |-> frame[t].adjusted_std,
                     population_type |->
                         IF engine.is_finite THEN "Finita" ELSE "Infinita"]]
    /\ pc' = [pc EXCEPT ![t] = "line152"]
    /\ UNCHANGED <<args, call, result, engine, distributions, session>>

\* line 152: 'correction_factor': round(self._calculate_correction_factor(n, N), 6)
\* if self.is_finite and N else None; then the rest of the dictionary and the
\* return
ThreadCorrectionFactor(t) ==
    /\ pc[t] = "line152"
    /\ LET a == ArgsOf(t)
           applies == engine.is_finite /\ ~IsNone(a.N) /\ Val(a.N) # 0
           cf == IF applies
                 THEN Binomial_calculate_correction_factor(a.n, Val(a.N))
                 ELSE [status |-> "ok", root |-> <<>>]
       IN  frame' = [frame EXCEPT ![t] =
               IF ~Ok(cf) THEN cf
               ELSE [status |-> "ok",
                     inputs |-> [n |-> a.n, p |-> a.p, x |-> a.x, N |-> a.N],
                     population_type |-> frame[t].population_type,
                     population_ratio |-> frame[t].ratio,
                     statistics |->
                         [mean |-> Round(frame[t].mean, 6),
                          variance |-> Binomial_calculate_variance(a.n, a.p),
                          std |-> frame[t].std,
                          adjusted_std |-> Binomial_adjusted_std_field(frame[t].adjusted_std),
                          correction_factor |->
                              IF applies THEN Some([root |-> cf.root]) ELSE None],
                     has_probability_x |-> ~IsNone(a.x)]]
    /\ pc' = [pc EXCEPT ![t] = "done"]
    /\ UNCHANGED <<args, call, result, engine, distributions, session>>

ConcurrentNext ==
    \E t \in Threads :
        \/ ThreadValidate(t)
        \/ ThreadStore(t)
        \/ ThreadDeterminePopulationType(t)
        \/ ThreadMoments(t)
        \/ ThreadPopulationType(t)
        \/ ThreadCorrectionFactor(t)

ConcurrentSpec == ConcurrentInit /\ [][ConcurrentNext]_vars

---------------------------------------------------------------------------
(* The public methods of the engines, called one at a time on valid inputs *)

\* sample sizes n whose binomial series is generated
MaxSeriesN == 5

\* (N, K, n) within the bounds of HypergeometricDistribution._validate_inputs
HypergeometricMethodArgs ==
    {a \in [kind : {"NKn"}, N : 1 .. MaxN, K : 0 .. MaxN, n : 1 .. MaxN] :
        a.K <= a.N /\ a.n <= a.N}

\* (n, p) within the bounds of BinomialDistribution._validate_inputs
BinomialMethodArgs ==
    [kind : {"np"}, n : 1 .. MaxSeriesN, p : {R(i, PDen) : i \in 0 .. PDen}]

MaxTwentieths == 30

\* skewness and kurtosis values in steps of 0.05, the thresholds 0.1, 0.5 and 1
\* among them
InterpretArgs ==
    [kind : {"value"}, value : {R(i, 20) : i \in (0 - MaxTwentieths) .. MaxTwentieths}]

\* the p that calculate_with_auto_selection hands to the Binomial engine
AutoProbabilities ==
    {R(Round(R(K, N), 6), 1000000) : K \in 0 .. MaxN, N \in 1 .. MaxN}

\* the fields of a valid BinomialDistributionForm with x given and N left
\* empty; the six-decimal probabilities come with the small samples the
\* auto-selection path sends to the Binomial engine
BinomialFormArgs ==
    {a \in [kind : {"npx"}, n : 1 .. MaxSeriesN,
            p : {R(i, PDen) : i \in 0 .. PDen}, x : 0 .. MaxSeriesN]
          \cup [kind : {"npx"}, n : 1 .. MaxBinomSample,
                p : AutoProbabilities, x : 0 .. MaxBinomSample] :
        a.x <= a.n /\ RLeq(a.p, RInt(1))}

MethodsInit ==
    /\ args \in HypergeometricMethodArgs \cup BinomialMethodArgs \cup InterpretArgs
                  \cup BinomialFormArgs
    /\ call = "none"
    /\ result = [status |-> "none"]
    /\ engine = NoEngine
    /\ distributions = InitialDistributions
    /\ pc = NoThreads
    /\ frame = NoThreads
    /\ session = NoSession

\* BinomialDistribution().calculate_skewness(n, p)
BinomialSkewness ==
    /\ call = "none"
    /\ args.kind = "np"
    /\ call' = "BinomialDistribution.calculate_skewness"
    /\ result' = Binomial_calculate_skewness(args.n, args.p)
    /\ engine' = BinomialDistribution
    /\ UNCHANGED <<args, distributions>>
    /\ UNCHANGED context

\* BinomialDistribution().calculate_kurtosis(n, p)
BinomialKurtosis ==
    /\ call = "none"
    /\ args.kind = "np"
    /\ call' = "BinomialDistribution.calculate_kurtosis"
    /\ result' = Binomial_calculate_kurtosis(args.n, args.p)
    /\ engine' = BinomialDistribution
    /\ UNCHANGED <<args, distributions>>
    /\ UNCHANGED context

\* BinomialDistribution().get_probabilities(n=n, p=p)
BinomialGetProbabilities ==
    /\ call = "none"
    /\ args.kind = "np"
    /\ call' = "BinomialDistribution.get_probabilities"
    /\ LET r == Binomial_get_probabilities(args.n, args.p)
       IN  result' = [status |-> "ok", x_values |-> r.x_values,
                      probabilities |-> r.probabilities]
    /\ engine' = BinomialDistribution
    /\ UNCHANGED <<args, distributions>>
    /\ UNCHANGED context

\* BinomialDistribution().interpret_skewness(skewness), for a given value and
\* for the value calculate hands over (distributions.py:135, 157)
BinomialInterpretSkewness ==
    /\ call = "none"
    /\ \E skewness \in
           IF args.kind = "value" THEN {RootOf(args.value)}
           ELSE IF args.kind = "np"
                    /\ Binomial_calculate_skewness(args.n, args.p).status = "ok"
               THEN {[sign |-> Binomial_calculate_skewness(args.n, args.p).sign,
                      square |-> Binomial_calculate_skewness(args.n, args.p).square]}
           ELSE {} :
           result' = [status |-> "ok", skewness |-> skewness,
                      interpretation |-> Binomial_interpret_skewness(skewness)]
    /\ call' = "BinomialDistribution.interpret_skewness"
    /\ engine' = BinomialDistribution
    /\ UNCHANGED <<args, distributions>>
    /\ UNCHANGED context

\* BinomialDistribution().interpret_kurtosis(kurtosis), for a given value and
\* for the value calculate hands over (distributions.py:136, 158)
BinomialInterpretKurtosis ==
    /\ call = "none"
    /\ \E kurtosis \in
           IF args.kind = "value" THEN {args.value}
           ELSE IF args.kind = "np"
                    /\ Binomial_calculate_kurtosis(args.n, args.p).status = "ok"
               THEN {Binomial_calculate_kurtosis(args.n, args.p).value}
           ELSE {} :
           result' = [status |-> "ok", kurtosis |-> kurtosis,
                      interpretation |-> Binomial_interpret_kurtosis(kurtosis)]
    /\ call' = "BinomialDistribution.interpret_kurtosis"
    /\ engine' = BinomialDistribution
    /\ UNCHANGED <<args, distributions>>
    /\ UNCHANGED context

\* binomial_view on a POST of n, p and x
BinomialView ==
    /\ call = "none"
    /\ args.kind = "npx"
    /\ Returns(binomial_view(distributions, args.n, args.p, Some(args.x), None))
    /\ call' = "binomial_view"
    /\ UNCHANGED <<args, distributions>>
    /\ UNCHANGED context

\* calculate_auto_view on a POST of N, K, n and an x, or none
CalculateAutoViewPost ==
    /\ call = "none"
    /\ args.kind = "NKn"
    /\ \E x \in {None} \cup {Some(v) : v \in 0 .. args.n} :
           Returns(calculate_auto_view_post(distributions, args.N, args.K, args.n, x))
    /\ call' = "calculate_auto_view"
    /\ UNCHANGED <<args, distributions>>
    /\ UNCHANGED context

\* HypergeometricDistribution().calculate_mean(N, K, n)
HypergeometricMean ==
    /\ call = "none"
    /\ args.kind = "NKn"
    /\ call' = "HypergeometricDistribution.calculate_mean"
    /\ result' = [status |-> "ok",
                  mean |-> Hypergeometric_calculate_mean(args.N, args.K, args.n)]
    /\ engine' = HypergeometricDistribution
    /\ UNCHANGED <<args, distributions>>
    /\ UNCHANGED context

\* HypergeometricDistribution().calculate_variance(N, K, n)
HypergeometricVariance ==
    /\ call = "none"
    /\ args.kind = "NKn"
    /\ call' = "HypergeometricDistribution.calculate_variance"
    /\ result' = Hypergeometric_calculate_variance(args.N, args.K, args.n)
    /\ engine' = HypergeometricDistribution
    /\ UNCHANGED <<args, distributions>>
    /\ UNCHANGED context

\* HypergeometricDistribution().calculate_std(N, K, n)
HypergeometricStd ==
    /\ call = "none"
    /\ args.kind = "NKn"
    /\ call' = "HypergeometricDistribution.calculate_std"
    /\ result' = Hypergeometric_calculate_std(args.N, args.K, args.n)
    /\ engine' = HypergeometricDistribution
    /\ UNCHANGED <<args, distributions>>
    /\ UNCHANGED context

\* HypergeometricDistribution().calculate_skewness(N, K, n)
HypergeometricSkewness ==
    /\ call = "none"
    /\ args.kind = "NKn"
    /\ call' = "HypergeometricDistribution.calculate_skewness"
    /\ result' = Hypergeometric_calculate_skewness(args.N, args.K, args.n)
    /\ engine' = HypergeometricDistribution
    /\ UNCHANGED <<args, distributions>>
    /\ UNCHANGED context

\* HypergeometricDistribution().calculate_kurtosis(N, K, n)
HypergeometricKurtosis ==
    /\ call = "none"
    /\ args.kind = "NKn"
    /\ call' = "HypergeometricDistribution.calculate_kurtosis"
    /\ result' = Hypergeometric_calculate_kurtosis(args.N, args.K, args.n)
    /\ engine' = HypergeometricDistribution
    /\ UNCHANGED <<args, distributions>>
    /\ UNCHANGED context

\* HypergeometricDistribution().calculate_median(N, K, n)
HypergeometricMedian ==
    /\ call = "none"
    /\ args.kind = "NKn"
    /\ call' = "HypergeometricDistribution.calculate_median"
    /\ result' = [status |-> "ok",
                  median |-> Hypergeometric_calculate_median(args.N, args.K, args.n)]
    /\ engine' = HypergeometricDistribution
    /\ UNCHANGED <<args, distributions>>
    /\ UNCHANGED context

\* HypergeometricDistribution().interpret_skewness_by_median(N, K, n)
HypergeometricInterpretSkewness ==
    /\ call = "none"
    /\ args.kind = "NKn"
    /\ call' = "HypergeometricDistribution.interpret_skewness_by_median"
    /\ result' = [status |-> "ok"]
                     @@ Hypergeometric_interpret_skewness_by_median(args.N, args.K, args.n)
    /\ engine' = HypergeometricDistribution
    /\ UNCHANGED <<args, distributions>>
    /\ UNCHANGED context

\* HypergeometricDistribution().get_probabilities(N=N, K=K, n=n)
HypergeometricGetProbabilities ==
    /\ call = "none"
    /\ args.kind = "NKn"
    /\ call' = "HypergeometricDistribution.get_probabilities"
    /\ LET r == Hypergeometric_get_probabilities(args.N, args.K, args.n)
       IN  result' = [status |-> "ok", x_values |-> r.x_values,
                      probabilities |-> r.probabilities]
    /\ engine' = HypergeometricDistribution
    /\ UNCHANGED <<args, distributions>>
    /\ UNCHANGED context

MethodsNext ==
    \/ BinomialSkewness
    \/ BinomialKurtosis
    \/ BinomialGetProbabilities
    \/ BinomialInterpretSkewness
    \/ BinomialInterpretKurtosis
    \/ BinomialView
    \/ CalculateAutoViewPost
    \/ HypergeometricMean
    \/ HypergeometricVariance
    \/ HypergeometricStd
    \/ HypergeometricSkewness
    \/ HypergeometricKurtosis
    \/ HypergeometricMedian
    \/ HypergeometricInterpretSkewness
    \/ HypergeometricGetProbabilities

MethodsSpec == MethodsInit /\ [][MethodsNext]_vars

---------------------------------------------------------------------------
(* data_manager/views.py: the views that read and write request.session *)

\* rows of the uploaded files
MaxSessionRows == 2

\* request.session[key] = value
SessionSet(s, key, value) ==
    [k \in DOMAIN s \cup {key} |-> IF k = key THEN value ELSE s[k]]

\* del request.session[key]
SessionDel(s, key) == [k \in DOMAIN s \ {key} |-> s[k]]

\* df.to_json(): each cell as a JSON value
ToJson(df) ==
    [c \in DOMAIN df |->
        [i \in DOMAIN df[c] |->
            IF IsNone(df[c][i]) THEN [json |-> "null"]
            ELSE IF Val(df[c][i]).type = "str"
                 THEN [json |-> "string", text |-> Val(df[c][i]).text]
                 ELSE [json |-> "number", val |-> Val(df[c][i]).val]]]

\* pd.read_json(io.StringIO(...)): the cells back from their JSON values
ReadJson(j) ==
    [c \in DOMAIN j |->
        [i \in DOMAIN j[c] |->
            IF j[c][i].json = "null" THEN None
            ELSE IF j[c][i].json = "string" THEN Some(StrCell(j[c][i].text))
                 ELSE Some(IntCell(j[c][i].val))]]

\* DataProcessor.get_columns_info, of which the counts per column are kept
get_columns_info(df) ==
    [c \in DOMAIN df |->
        [total_rows |-> Len(df[c]),
         non_null_count |-> Len(dropna(df[c])),
         null_count |-> Len(df[c]) - Len(dropna(df[c]))]]

\* DataProcessor.get_preview_data, of which the columns and the row count
\* are kept
get_preview_data(df) ==
    [columns |-> DOMAIN df,
     total_rows |-> Len(df[CHOOSE c \in DOMAIN df : TRUE])]

\* upload_view on a POST with data_file = file: [session, response].  A file
\* is [extension_ok, df]; validate_file rejects a wrong extension and
\* read_file rejects a frame with no row.
upload_view(s, file) ==
    IF ~file.extension_ok
    THEN [session |-> s, response |-> Raise("error", <<"Formato no permitido">>)]
    ELSE IF Len(file.df[CHOOSE c \in DOMAIN file.df : TRUE]) = 0
    THEN [session |-> s, response |-> Raise("error", <<"El archivo no contiene datos">>)]
    ELSE [session |->
              SessionSet(SessionSet(SessionSet(s, "dataframe_json", ToJson(file.df)),
                                    "columns_info", get_columns_info(file.df)),
                         "preview_data", get_preview_data(file.df)),
          response |-> [status |-> "ok", redirect |-> "data_manager:upload"]]

\* analyze_column on a POST; a parameter the request lacks is ""
analyze_column(s, column_name, success_category) ==
    IF column_name = "" \/ success_category = ""
    THEN [session |-> s, response |-> [status |-> 400, error |-> "Faltan parametros"]]
    ELSE IF "dataframe_json" \notin DOMAIN s
    THEN [session |-> s, response |-> [status |-> 400, error |-> "No hay datos cargados"]]
    ELSE LET df == ReadJson(s["dataframe_json"])
             analysis == analyze_categorical_column(df, column_name, success_category)
         IN  IF Ok(analysis)
             THEN [session |-> SessionSet(s, "column_analysis", analysis),
                   response |-> [status |-> 200, analysis |-> analysis]]
             ELSE [session |-> s,
                   response |-> [status |-> 400, error |-> analysis.message[1]]]

\* calculate_auto_view on a GET: the context it renders
calculate_auto_view(s) ==
    LET analysis == IF "column_analysis" \in DOMAIN s
                    THEN Some(s["column_analysis"]) ELSE None
    IN  [session |-> s,
         response |->
             [status |-> 200,
              analysis |-> analysis,
              has_loaded_data |-> "dataframe_json" \in DOMAIN s,
              initial_data |->
                  IF IsNone(analysis) THEN None
                  ELSE Some([N |-> Val(analysis).N, K |-> Val(analysis).K])]]

\* the loop of clear_session over the keys still to clear
RECURSIVE ClearKeys(_, _)
ClearKeys(s, keys) ==
    IF keys = <<>> THEN s
    ELSE ClearKeys(IF Head(keys) \in DOMAIN s THEN SessionDel(s, Head(keys)) ELSE s,
                   Tail(keys))

\* clear_session with 'column_analysis' missing from keys_to_clear
clear_session_keeps_analysis(s) ==
    [session |-> ClearKeys(s, <<"dataframe_json", "columns_info", "preview_data">>),
     response |-> [status |-> 302, redirect |-> "data_manager:upload"]]

\* clear_session
clear_session(s) ==
    [session |-> ClearKeys(s, <<"dataframe_json", "columns_info", "preview_data",
                                "column_analysis">>),
     response |-> [status |-> 302, redirect |-> "data_manager:upload"]]

\* the cells of an uploaded column: null and two labels that do not read as
\* numbers, which to_json and read_json hand back as they were
SessionCells == {None, Some(StrCell("a")), Some(StrCell("b"))}

SessionFrames ==
    UNION {{[c \in {"categoria", "notas"} |->
                IF c = "categoria" THEN cells ELSE [i \in 1 .. rows |-> None]] :
              cells \in [1 .. rows -> SessionCells]} : rows \in 0 .. MaxSessionRows}

UploadedFiles == [extension_ok : BOOLEAN, df : SessionFrames]

SessionInit ==
    /\ args = [kind |-> "request"]
    /\ call = "none"
    /\ result = [status |-> "none"]
    /\ engine = NoEngine
    /\ distributions = InitialDistributions
    /\ pc = NoThreads
    /\ frame = NoThreads
    /\ session = NoSession

\* POST data_manager:upload with a file
UploadView ==
    \E file \in UploadedFiles :
        LET r == upload_view(session, file)
        IN  /\ args' = [kind |-> "request", file |-> file]
            /\ call' = "upload_view"
            /\ result' = r.response
            /\ session' = r.session
            /\ UNCHANGED <<engine, distributions, pc, frame>>

\* POST data_manager:analyze_column
AnalyzeColumn ==
    \E column_name \in {"", "categoria", "notas", "edad"}, success_category \in {"", "a", "b"} :
        LET r == analyze_column(session, column_name, success_category)
        IN  /\ args' = [kind |-> "request", column_name |-> column_name,
                        success_category |-> success_category]
            /\ call' = "analyze_column"
            /\ result' = r.response
            /\ session' = r.session
            /\ UNCHANGED <<engine, distributions, pc, frame>>

\* GET data_manager:calculate_auto
CalculateAutoView ==
    LET r == calculate_auto_view(session)
    IN  /\ args' = [kind |-> "request"]
        /\ call' = "calculate_auto_view"
        /\ result' = r.response
        /\ session' = r.session
        /\ UNCHANGED <<engine, distributions, pc, frame>>

\* data_manager:clear_session
ClearSession ==
    LET r == clear_session(session)
    IN  /\ args' = [kind |-> "request"]
        /\ call' = "clear_session"
        /\ result' = r.response
        /\ session' = r.session
        /\ UNCHANGED <<engine, distributions, pc, frame>>

SessionNext ==
    \/ UploadView
    \/ AnalyzeColumn
    \/ CalculateAutoView
    \/ ClearSession

SessionSpec == SessionInit /\ [][SessionNext]_vars

---------------------------------------------------------------------------
(* One engine instance called again and again *)

\* arguments of calculate on the reused Binomial instance, valid and not
ReuseBinomialArgs ==
    [kind : {"npxN"},
     n : 0 .. MaxSharedSample,
     p : {R(1, 2)},
     x : {None, Some(MaxSharedSample + 1)},
     N : SharedPopulations \cup {Some(0)}]

MaxReuseN == 2

\* arguments of calculate on the reused Hypergeometric instance, valid and not
\* (K or n one above N, n = 0, x above min(n, K))
ReuseHypergeometricArgs ==
    {a \in [kind : {"NKnx"},
            N : 1 .. MaxReuseN,
            K : 0 .. (MaxReuseN + 1),
            n : 0 .. (MaxReuseN + 1),
            x : {None, Some(1)}] :
        a.K <= a.N + 1 /\ a.n <= a.N + 1 /\ (IsNone(a.x) \/ a.N = 1)}

ReuseInit ==
    /\ engine \in {BinomialDistribution, HypergeometricDistribution}
    /\ args = [kind |-> "none"]
    /\ call = "none"
    /\ result = [status |-> "none"]
    /\ distributions = InitialDistributions
    /\ pc = NoThreads
    /\ frame = NoThreads
    /\ session = NoSession

\* one more engine.calculate(n=n, p=p, x=x, N=N) on the Binomial instance
ReuseBinomialCalculate ==
    /\ engine.class = "BinomialDistribution"
    /\ \E a \in ReuseBinomialArgs :
           /\ args' = a
           /\ Returns(Binomial_calculate(engine, a.n, a.p, a.x, a.N))
    /\ call' = "BinomialDistribution.calculate"
    /\ UNCHANGED distributions
    /\ UNCHANGED context

\* one more engine.calculate(N=N, K=K, n=n, x=x) on the Hypergeometric instance
ReuseHypergeometricCalculate ==
    /\ engine.class = "HypergeometricDistribution"
    /\ \E a \in ReuseHypergeometricArgs :
           /\ args' = a
           /\ Returns(Hypergeometric_calculate(engine, a.N, a.K, a.n, a.x))
    /\ call' = "HypergeometricDistribution.calculate"
    /\ UNCHANGED distributions
    /\ UNCHANGED context

ReuseNext ==
    \/ ReuseBinomialCalculate
    \/ ReuseHypergeometricCalculate

ReuseSpec == ReuseInit /\ [][ReuseNext]_vars

---------------------------------------------------------------------------
(* Properties *)

\* the bounds the specification puts on (N, K, n)
ValidNKn(N, K, n) == N > 0 /\ 0 <= K /\ K <= N /\ 0 < n /\ n <= N

\* the bounds the Binomial engine is specified to put on its arguments
ValidBinomial(n, p, x, N) ==
    /\ n > 0
    /\ RLeq(RInt(0), p) /\ RLeq(p, RInt(1))
    /\ IsNone(x) \/ (0 <= Val(x) /\ Val(x) <= n)
    /\ IsNone(N) \/ (Val(N) > 0 /\ n <= Val(N))

\* the bounds the Hypergeometric engine is specified to put on its arguments
ValidHypergeometric(N, K, n, x) ==
    /\ ValidNKn(N, K, n)
    /\ IsNone(x) \/ (0 <= Val(x) /\ Val(x) <= n /\ Val(x) <= K)

\* the call raised one of the ValueErrors of a validation
IsValidationError(r) ==
    r.status = "ValueError" /\ r.message[1] # "math domain error"

\* C1: for every valid (N, K, n) decide returns Hypergeometric if and only if
\* 5*n >= N and Binomial otherwise, and its recommendation is None exactly
\* when Hypergeometric is chosen.
C1_DecideRule ==
    (call = "decide" /\ ValidNKn(args.N, args.K, args.n)) =>
        /\ Ok(result)
        /\ result.distribution_type \in {HYPERGEOMETRIC, BINOMIAL}
        /\ result.distribution_type = HYPERGEOMETRIC <=> 5 * args.n >= args.N
        /\ IsNone(result.recommendation) <=> result.distribution_type = HYPERGEOMETRIC

\* decide chose Hypergeometric for a sample of exactly one fifth
C1_Witness ==
    /\ call = "decide"
    /\ Ok(result)
    /\ 5 * args.n = args.N
    /\ result.distribution_type = HYPERGEOMETRIC
    /\ IsNone(result.recommendation)

\* C2: decide raises a validation error exactly when one of N > 0,
\* 0 <= K <= N, 0 < n <= N is violated, and returns a decision for every
\* input within the three bounds.
C2_DecideValidation ==
    call = "decide" =>
        /\ IsValidationError(result) <=> ~ValidNKn(args.N, args.K, args.n)
        /\ Ok(result) <=> ValidNKn(args.N, args.K, args.n)

\* decide rejected a sample larger than the population, N and K being in range
C2_Witness ==
    /\ call = "decide"
    /\ args.N > 0 /\ 0 <= args.K /\ args.K <= args.N
    /\ args.n > args.N
    /\ IsValidationError(result)

\* C3: BinomialDistribution.calculate raises a validation error exactly when
\* n <= 0, or p is outside [0, 1], or x is given with x < 0 or x > n, or N
\* is given with N <= 0 or n > N; so x = 0 and x = n pass the validation and
\* x = -1 and x = n + 1 do not.
C3_BinomialValidation ==
    call = "BinomialDistribution.calculate" =>
        (IsValidationError(result) <=>
            ~ValidBinomial(args.n, args.p, args.x, args.N))

\* calculate accepted x = n
C3_Witness ==
    /\ call = "BinomialDistribution.calculate"
    /\ args.x = Some(args.n)
    /\ Ok(result)

\* C4: HypergeometricDistribution.calculate raises a validation error exactly
\* when N <= 0, K < 0, K > N, n <= 0, n > N, or x is given with x < 0,
\* x > n or x > K; an x with K < x <= n gets the error that names K, an x > n
\* gets the error that names n, also when x > K.
C4_HypergeometricValidation ==
    call = "HypergeometricDistribution.calculate" =>
        /\ IsValidationError(result) <=>
               ~ValidHypergeometric(args.N, args.K, args.n, args.x)
        /\ (ValidNKn(args.N, args.K, args.n) /\ ~IsNone(args.x) /\ Val(args.x) >= 0) =>
               /\ (args.K < Val(args.x) /\ Val(args.x) <= args.n) =>
                      /\ IsValidationError(result)
                      /\ result.message =
                             <<"El numero de exitos en la muestra (x) no puede ser mayor que K=", args.K>>
               /\ Val(args.x) > args.n =>
                      /\ IsValidationError(result)
                      /\ result.message =
                             <<"El numero de exitos en la muestra (x) no puede ser mayor que", args.n>>

\* calculate rejected an x with K < x <= n
C4_Witness ==
    /\ call = "HypergeometricDistribution.calculate"
    /\ ValidNKn(args.N, args.K, args.n)
    /\ ~IsNone(args.x)
    /\ args.K < Val(args.x) /\ Val(args.x) <= args.n
    /\ IsValidationError(result)

\* C5: calculate_with_auto_selection returns no result when x > K or x > n:
\* the call raises a validation error.
C5_AutoSelectionCrossFieldBounds ==
    (/\ call = "calculate_with_auto_selection"
     /\ ~IsNone(args.x)
     /\ (Val(args.x) > args.K \/ Val(args.x) > args.n)) =>
        IsValidationError(result)

\* C6: BinomialDistribution.calculate returns a result for every input within
\* the bounds of its validation, p = 0, p = 1 and n = N = 1 included; it
\* raises validation errors only.
C6_BinomialTotalOnValidInputs ==
    call = "BinomialDistribution.calculate" =>
        /\ ValidBinomial(args.n, args.p, args.x, args.N) => Ok(result)
        /\ Ok(result) \/ IsValidationError(result)

\* C7: HypergeometricDistribution.calculate returns a result for every input
\* within the bounds of its validation, N = 1, N <= 3, K = 0, K = N and n = N
\* included; it raises validation errors only.
C7_HypergeometricTotalOnValidInputs ==
    call = "HypergeometricDistribution.calculate" =>
        /\ ValidHypergeometric(args.N, args.K, args.n, args.x) => Ok(result)
        /\ Ok(result) \/ IsValidationError(result)

\* C8: a result of BinomialDistribution.calculate has population_type
\* 'Finita' exactly when N is given and 20*n > N, and exactly then its
\* adjusted_std is not None and is std * sqrt((N-n)/(N-1)); otherwise
\* population_type is 'Infinita' and adjusted_std is None.
C8_FinitePopulationCorrection ==
    (call = "BinomialDistribution.calculate" /\ Ok(result)) =>
        LET finite == ~IsNone(args.N) /\ 20 * args.n > Val(args.N)
        IN  /\ result.population_type = (IF finite THEN "Finita" ELSE "Infinita")
            /\ ~IsNone(result.statistics.adjusted_std) <=> finite
            /\ finite =>
                   Val(result.statistics.adjusted_std).root =
                       result.statistics.std.root
                           \o <<R(Val(args.N) - args.n, Val(args.N) - 1)>>

\* what the engine chosen by 5*n >= N returns when called directly, the
\* Binomial engine with p = K/N
DirectEngineResult(N, K, n, x) ==
    IF 5 * n >= N
    THEN Hypergeometric_calculate(HypergeometricDistribution, N, K, n, x).out
    ELSE Binomial_calculate(BinomialDistribution, n, R(K, N), x, Some(N)).out

\* C9: for every valid (N, K, n, x), calculate_with_auto_selection returns
\* the decision of decide(N, K, n) and the results of the chosen engine called
\* directly, the Binomial engine with p = K/N, so that its mean is n*K/N.
C9_AutoSelectionEqualsDirectCall ==
    (/\ call = "calculate_with_auto_selection"
     /\ ValidHypergeometric(args.N, args.K, args.n, args.x)) =>
        LET direct == DirectEngineResult(args.N, args.K, args.n, args.x)
            decision == decide(args.N, args.K, args.n)
        IN  IF Ok(result)
            THEN /\ result.results = direct
                 /\ result.results.statistics.mean =
                        Round(R(args.n * args.K, args.N), 6)
                 /\ result.model_decision.distribution_type = decision.distribution_type
                 /\ result.model_decision.sample_ratio = decision.sample_ratio
                 /\ result.model_decision.threshold = decision.threshold_used
                 /\ result.model_decision.recommendation = decision.recommendation
            ELSE result = direct

\* create returned an instance, or raised the error that lists the registry
C10_CreateOutcome ==
    call = "create" =>
        IF \E i \in DOMAIN distributions : distributions[i].name = Lower(args.name)
        THEN /\ Ok(result)
             /\ \E i \in DOMAIN distributions :
                    /\ distributions[i].name = Lower(args.name)
                    /\ result.instance = Instantiate(distributions[i].class)
        ELSE /\ result.status = "ValueError"
             /\ result.message[3] = [i \in DOMAIN distributions |-> distributions[i].name]

\* C10: DistributionFactory.create(name) returns a new instance of the class
\* registered under the lower-cased name, for every letter-case variant of a
\* registered name; when the lower-cased name is not registered it raises an
\* error that lists exactly the names registered at that moment; either way
\* the registry is left as it was.
C10_FactoryCreate ==
    [][call' = "create" => (distributions' = distributions /\ C10_CreateOutcome')]_vars

\* create returned an instance for a name that was registered at run time and
\* is asked for in another letter case
C10_Witness ==
    /\ call = "create"
    /\ Ok(result)
    /\ Lower(args.name) = POISSON
    /\ args.name # POISSON
    /\ result.instance.class = "PoissonDistribution"

\* the registry at any moment: the two initial names are there, every name is
\* lower-cased, held once and creatable
C11_RegistryState ==
    /\ HasKey(distributions, BINOMIAL)
    /\ HasKey(distributions, HYPERGEOMETRIC)
    /\ \A i \in DOMAIN distributions :
           /\ distributions[i].name = Lower(distributions[i].name)
           /\ \A j \in DOMAIN distributions :
                  distributions[j].name = distributions[i].name => j = i
           /\ Ok(Factory_create(distributions, distributions[i].name))
           /\ Ok(Factory_create(distributions, Upper(distributions[i].name)))

\* one step of the registry: what it held it still holds; register adds the
\* lower-cased name or replaces its class; the list returned names all of it
C11_RegistryStep ==
    /\ \A i \in DOMAIN distributions : HasKey(distributions', distributions[i].name)
    /\ call' = "register" =>
           LET key == Lower(args'.name)
           IN  /\ HasKey(distributions', key)
               /\ Lookup(distributions', key) = args'.class
               /\ Len(distributions') =
                      IF HasKey(distributions, key)
                      THEN Len(distributions)
                      ELSE Len(distributions) + 1
    /\ call' = "get_available_distributions" =>
           /\ \A i \in DOMAIN distributions :
                  \E j \in DOMAIN result'.names : result'.names[j] = distributions[i].name
           /\ Len(result'.names) = Len(distributions')

\* C11: over any sequence of register, create and get_available_distributions
\* calls the set of names the factory returns never loses an element; every
\* name ever registered, the initial 'binomial' and 'hypergeometric' included,
\* stays creatable; names are stored lower-cased; registering a name again, in
\* any letter case, keeps a single entry for it.
C11_RegistryOnlyGrows == []C11_RegistryState /\ [][C11_RegistryStep]_vars

\* 'binomial', registered from the start, was registered again in another
\* letter case with another class: the registry still has its two entries
C11_Witness ==
    /\ call = "register"
    /\ Lower(args.name) = BINOMIAL
    /\ args.name # BINOMIAL
    /\ args.class = "PoissonDistribution"
    /\ Len(distributions) = 2
    /\ Lookup(distributions, BINOMIAL) = "PoissonDistribution"
    /\ Ok(Factory_create(distributions, Upper(BINOMIAL)))

\* the non-null cells of the analysed column, and those of them that read as
\* the success category
C12_NonNull == {i \in DOMAIN args.df[args.column_name] : ~IsNone(args.df[args.column_name][i])}
C12_Matching ==
    {i \in C12_NonNull : Str(Val(args.df[args.column_name][i])) = args.success_category}

\* C12: analyze_categorical_column(df, column, successCategory) fails, in this
\* order of precedence, when the column is absent, when the column has no
\* non-null value, and when successCategory occurs zero times; otherwise it
\* returns N = the number of non-null entries and K = the number of entries
\* equal to successCategory, with 1 <= K <= N.
C12_AnalyzeColumn ==
    call = "analyze_categorical_column" =>
        IF args.column_name \notin DOMAIN args.df
        THEN /\ result.status = "DataProcessingError"
             /\ result.message[1] = "La columna no existe en el archivo"
        ELSE IF C12_NonNull = {}
        THEN /\ result.status = "DataProcessingError"
             /\ result.message[1] = "La columna no contiene datos validos"
        ELSE IF C12_Matching = {}
        THEN /\ result.status = "DataProcessingError"
             /\ result.message[1] = "La categoria no existe en la columna o tiene 0 ocurrencias"
        ELSE /\ Ok(result)
             /\ result.N = Cardinality(C12_NonNull)
             /\ result.K = Cardinality(C12_Matching)
             /\ 1 <= result.K
             /\ result.K <= result.N

\* C13: two calculate calls that run concurrently, without locking, on the same
\* BinomialDistribution instance each return the result the same call returns
\* when it runs alone: population_type, adjusted_std and correction_factor of
\* each result are determined by that call's own n and N.
C13_ConcurrentCallsIndependent ==
    \A t \in DOMAIN pc :
        pc[t] = "done" =>
            frame[t] = Binomial_calculate(BinomialDistribution, ArgsOf(t).n, ArgsOf(t).p,
                                          ArgsOf(t).x, ArgsOf(t).N).out

\* the sum of f[1], ..., f[k]
RECURSIVE SumTo(_, _)
SumTo(f, k) == IF k = 0 THEN 0 ELSE f[k] + SumTo(f, k - 1)

\* the sum of the rationals f[1], ..., f[k]
RECURSIVE RSumTo(_, _)
RSumTo(f, k) == IF k = 0 THEN RInt(0) ELSE RAdd(f[k], RSumTo(f, k - 1))

\* C14: BinomialDistribution.calculate_skewness and calculate_kurtosis return 0
\* for p = 0 and for p = 1, for every n >= 1; HypergeometricDistribution
\* .calculate_skewness returns 0 for N = 1 and calculate_kurtosis returns 0 for
\* every N <= 3, for all valid K and n.
C14_DegenerateMoments ==
    /\ (call = "BinomialDistribution.calculate_skewness"
            /\ (args.p = RInt(0) \/ args.p = RInt(1)))
           => (Ok(result) /\ result.sign = 0 /\ result.square = RInt(0))
    /\ (call = "BinomialDistribution.calculate_kurtosis"
            /\ (args.p = RInt(0) \/ args.p = RInt(1)))
           => (Ok(result) /\ result.value = RInt(0))
    /\ (call = "HypergeometricDistribution.calculate_skewness" /\ args.N = 1)
           => (Ok(result) /\ result.sign = 0 /\ result.square = RInt(0))
    /\ (call = "HypergeometricDistribution.calculate_kurtosis" /\ args.N <= 3)
           => (Ok(result) /\ result.value = RInt(0))

\* calculate_kurtosis returned 0 at p = 1 for a sample of several draws
C14_Witness ==
    /\ call = "BinomialDistribution.calculate_kurtosis"
    /\ args.p = RInt(1)
    /\ args.n > 1
    /\ Ok(result)
    /\ result.value = RInt(0)

\* b to the power e, with b^0 = 1 for every b
RECURSIVE IntPow(_, _)
IntPow(b, e) == IF e = 0 THEN 1 ELSE b * IntPow(b, e - 1)

\* C15: BinomialDistribution.get_probabilities(n, p) returns x_values exactly
\* 0, 1, ..., n in ascending order with one probability per x, n + 1 entries;
\* the exact pmf C(n,x) p^x (1-p)^(n-x) sums to 1 over them, so the returned
\* percentages, each rounded to 4 decimals, sum to 100 within (n + 1) * 0.00005.
C15_BinomialSeries ==
    call = "BinomialDistribution.get_probabilities" =>
        LET n == args.n
            pmf == [i \in 1 .. (n + 1) |->
                       R(Comb(n, i - 1) * IntPow(args.p.num, i - 1)
                             * IntPow(args.p.den - args.p.num, n - (i - 1)),
                         IntPow(args.p.den, n))]
            total == SumTo(result.probabilities, Len(result.probabilities))
        IN  /\ Len(result.x_values) = n + 1
            /\ Len(result.probabilities) = n + 1
            /\ \A i \in 1 .. (n + 1) : result.x_values[i] = i - 1
            /\ RSumTo(pmf, n + 1) = RInt(1)
            /\ \A i \in 1 .. (n + 1) :
                   result.probabilities[i] = Round(RMul(RInt(100), pmf[i]), 4)
            /\ 2 * Abs(total - 1000000) <= n + 1

\* the series of the largest sample for an inner p, where rounding moved the
\* sum of the percentages off 100
C15_Witness ==
    /\ call = "BinomialDistribution.get_probabilities"
    /\ args.n = MaxSeriesN
    /\ RLess(RInt(0), args.p)
    /\ RLess(args.p, RInt(1))
    /\ Len(result.probabilities) = MaxSeriesN + 1
    /\ SumTo(result.probabilities, Len(result.probabilities)) # 1000000

\* C16: HypergeometricDistribution.get_probabilities(N, K, n) returns x_values
\* exactly 0, 1, ..., min(n, K) in ascending order with one probability per x;
\* the exact pmf C(K,x) C(N-K,n-x) / C(N,n) over that range, zero for
\* x < n - (N - K), sums to 1 for every valid (N, K, n).
C16_HypergeometricSeries ==
    call = "HypergeometricDistribution.get_probabilities" =>
        LET N == args.N
            K == args.K
            n == args.n
            max_x == IF n < K THEN n ELSE K
            pmf == [i \in 1 .. (max_x + 1) |->
                       R(Comb(K, i - 1) * Comb(N - K, n - (i - 1)), Comb(N, n))]
        IN  /\ Len(result.x_values) = max_x + 1
            /\ Len(result.probabilities) = max_x + 1
            /\ \A i \in 1 .. (max_x + 1) :
                   /\ result.x_values[i] = i - 1
                   /\ result.probabilities[i] = Round(RMul(RInt(100), pmf[i]), 4)
                   /\ (i - 1 < n - (N - K)) => result.probabilities[i] = 0
            /\ RSumTo(pmf, max_x + 1) = RInt(1)

\* a series cut at K < n whose first entries are below the support
C16_Witness ==
    /\ call = "HypergeometricDistribution.get_probabilities"
    /\ args.K < args.n
    /\ args.n - (args.N - args.K) >= 2
    /\ Len(result.x_values) = args.K + 1
    /\ result.probabilities[1] = 0
    /\ result.probabilities[2] = 0
    /\ result.probabilities[args.K + 1] > 0

\* the session holds none of the four keys
C17_Cleared(s) ==
    {"dataframe_json", "columns_info", "preview_data", "column_analysis"} \cap DOMAIN s = {}

\* the step of a request: clear_session leaves none of the keys; with none of
\* the keys present, every request but a successful upload leaves it so, and
\* calculate_auto_view finds no cached analysis
C17_ClearedStep ==
    /\ call' = "clear_session" => C17_Cleared(session')
    /\ (C17_Cleared(session) /\ ~(call' = "upload_view" /\ Ok(result'))) =>
           /\ C17_Cleared(session')
           /\ call' = "calculate_auto_view" =>
                  (IsNone(result'.analysis) /\ ~result'.has_loaded_data)
           /\ call' = "analyze_column" => result'.status = 400

\* C17 as stated: after clear_session none of the keys dataframe_json,
\* columns_info, preview_data, column_analysis is in the session, whatever
\* requests preceded it; from then until a new successful upload
\* analyze_column fails with 'No hay datos cargados' and calculate_auto_view
\* sees no cached analysis.
C17_SessionLifecycle ==
    [][/\ C17_ClearedStep
       /\ (C17_Cleared(session) /\ call' = "analyze_column") =>
              result'.error = "No hay datos cargados"]_vars

\* C17, amended: as above, except that analyze_column fails with 'No hay datos
\* cargados' when the request carries both column_name and success_category,
\* and with 'Faltan parametros' when it lacks either.
C17_SessionLifecycleAmended ==
    [][/\ C17_ClearedStep
       /\ (C17_Cleared(session) /\ call' = "analyze_column") =>
              result'.error =
                  IF args'.column_name = "" \/ args'.success_category = ""
                  THEN "Faltan parametros"
                  ELSE "No hay datos cargados"]_vars

\* analyze_column, asked for a column and a category, found no data in a
\* session that holds none of the keys
C17_Witness ==
    /\ call = "analyze_column"
    /\ args.column_name = "categoria"
    /\ args.success_category = "a"
    /\ result.status = 400
    /\ result.error = "No hay datos cargados"
    /\ C17_Cleared(session)

\* C18: for every valid (N, K, n) with N >= 4 where n * K * (N - K) * (N - n) = 0
\* (K = 0, K = N or n = N), HypergeometricDistribution.calculate_skewness and
\* calculate_kurtosis both return 0 instead of raising a division error.
C18_ZeroDenominatorReturnsZero ==
    (/\ args.kind = "NKn"
     /\ args.N >= 4
     /\ args.n * args.K * (args.N - args.K) * (args.N - args.n) = 0) =>
        /\ call = "HypergeometricDistribution.calculate_skewness" =>
               (Ok(result) /\ result.sign = 0 /\ result.square = RInt(0))
        /\ call = "HypergeometricDistribution.calculate_kurtosis" =>
               (Ok(result) /\ result.value = RInt(0))

\* the closed form of the excess kurtosis
C19_ClosedForm(N, K, n) ==
    R((N - 1) * N * N * (N * (N + 1) - 6 * K * (N - K) - 6 * n * (N - n))
          + 6 * n * K * (N - K) * (N - n) * (5 * N - 6),
      n * K * (N - K) * (N - n) * (N - 2) * (N - 3))

\* C19: for valid (N, K, n) with N >= 4, 0 < K < N and n < N,
\* HypergeometricDistribution.calculate_kurtosis equals the closed form
\* [(N-1) N^2 (N(N+1) - 6K(N-K) - 6n(N-n)) + 6nK(N-K)(N-n)(5N-6)]
\* / [nK(N-K)(N-n)(N-2)(N-3)], the fourth central moment of the pmf divided by
\* the square of its variance, minus 3.
C19_KurtosisClosedForm ==
    (/\ call = "HypergeometricDistribution.calculate_kurtosis"
     /\ args.N >= 4 /\ 0 < args.K /\ args.K < args.N /\ args.n < args.N) =>
        /\ Ok(result)
        /\ result.value = C19_ClosedForm(args.N, args.K, args.n)

\* the exact cumulative probability P(X <= x)
C20_Cumulative(N, K, n, x) ==
    RSumTo([i \in 1 .. (x + 1) |->
               R(Comb(K, i - 1) * Comb(N - K, n - (i - 1)), Comb(N, n))], x + 1)

C21_Category(N, K, n) ==
    LET mean == R(n * K, N)
        median == Hypergeometric_calculate_median(N, K, n)
    IN  IF RLess(mean, RSub(RInt(median), R(1, 10))) THEN "Sesgo Negativo"
        ELSE IF RLess(RAdd(RInt(median), R(1, 10)), mean) THEN "Sesgo Positivo"
        ELSE "Sesgo Nulo"

C21_InterpretationByMedian ==
    call = "HypergeometricDistribution.interpret_skewness_by_median" =>
        result.interpretation = C21_Category(args.N, args.K, args.n)

\* C22: interpret_skewness puts every skewness s in exactly one category:
\* |s| < 0.1 approximately symmetric, -0.5 <= s <= -0.1 slight negative,
\* s < -0.5 significant negative, 0.1 <= s <= 0.5 slight positive, s > 0.5
\* significant positive, and it never answers the trailing 'Simetrica';
\* interpret_kurtosis answers leptokurtic for k > 1, platykurtic for k < -1
\* and mesokurtic for -1 <= k <= 1
C22_SkewnessCategory(sign, square) ==
    IF RLess(square, R(1, 100)) THEN "Distribucion aproximadamente simetrica"
    ELSE IF sign < 0 /\ RLeq(square, R(1, 4)) THEN "Ligera asimetria negativa"
    ELSE IF sign < 0 THEN "Asimetria negativa significativa"
    ELSE IF sign > 0 /\ RLeq(square, R(1, 4)) THEN "Ligera asimetria positiva"
    ELSE "Asimetria positiva significativa"

C22_InterpretationPartition ==
    /\ call = "BinomialDistribution.interpret_skewness" =>
           /\ result.interpretation # "Simetrica"
           /\ result.interpretation =
                  C22_SkewnessCategory(result.skewness.sign, result.skewness.square)
    /\ call = "BinomialDistribution.interpret_kurtosis" =>
           /\ result.interpretation = "Leptocurtica" <=> RLess(RInt(1), result.kurtosis)
           /\ result.interpretation = "Platicurtica" <=> RLess(result.kurtosis, RInt(-1))
           /\ result.interpretation = "Mesocurtica" <=>
                  RLeq(RInt(-1), result.kurtosis) /\ RLeq(result.kurtosis, RInt(1))

\* the boundary -0.5 is reported as a slight negative skew
C22_Witness ==
    /\ call = "BinomialDistribution.interpret_skewness"
    /\ args.kind = "value"
    /\ args.value = R(-1, 2)
    /\ result.interpretation = "Ligera asimetria negativa"

\* C23: in the result of calculate_with_auto_selection the three series of
\* chart_data have the same length, cumulative[i] is the sum of
\* probabilities[0..i] rounded to 4 decimals, and cumulative never decreases
C23_ChartData ==
    (call = "calculate_with_auto_selection" /\ Ok(result)) =>
        LET chart == result.chart_data
        IN  /\ Len(chart.x_values) = Len(chart.probabilities)
            /\ Len(chart.cumulative) = Len(chart.probabilities)
            /\ \A i \in 1 .. Len(chart.cumulative) :
                   chart.cumulative[i] =
                       Round(R(SumTo(chart.probabilities, i), 10000), 4)
            /\ \A i \in 2 .. Len(chart.cumulative) :
                   chart.cumulative[i - 1] <= chart.cumulative[i]

\* a chart on the Binomial path with three points
C23_Witness ==
    /\ call = "calculate_with_auto_selection"
    /\ Ok(result)
    /\ result.model_decision.distribution_type = BINOMIAL
    /\ Len(result.chart_data.cumulative) = 3
    /\ result.chart_data.probabilities[2] > 0

\* C24: for a Binomial calculation with x given, the cumulative probability
\* of x by direct summation of the pmf, rounded once (binomial_view), equals
\* the entry cumulative[x] of the stored series of rounded percentages
\* (the auto-selection path) for the same n, p and x
C24_DirectEqualsLookup ==
    /\ (call = "binomial_view" /\ Ok(result)) =>
           result.cumulative_prob_x =
               Some(cumulative_probs(
                        Binomial_get_probabilities(args.n, args.p).probabilities)[args.x + 1])
    /\ (call = "calculate_auto_view" /\ Ok(result)
            /\ result.model_decision.distribution_type = BINOMIAL
            /\ ~IsNone(result.chart_data.cumulative_prob_x)) =>
           result.chart_data.cumulative_prob_x =
               Some(direct_cumulative_prob_x(
                        args.n, R(result.input_params.p, 1000000),
                        Val(result.chart_data.x_limit)))

\* C25: whatever calls came before on one engine instance, a calculate call
\* that passes validation returns what it returns on a new instance, and a
\* call that fails validation leaves the stored fields as they were
C25_Step ==
    /\ call' = "BinomialDistribution.calculate" =>
           LET fresh == Binomial_calculate(BinomialDistribution,
                                           args'.n, args'.p, args'.x, args'.N)
               valid == Binomial_validate_inputs(args'.n, args'.p, args'.x, args'.N)
           IN  /\ Ok(valid) => result' = fresh.out /\ engine' = fresh.self
               /\ ~Ok(valid) => engine' = engine /\ result' = valid
    /\ call' = "HypergeometricDistribution.calculate" =>
           LET fresh == Hypergeometric_calculate(HypergeometricDistribution,
                                                 args'.N, args'.K, args'.n, args'.x)
               valid == Hypergeometric_validate_inputs(args'.N, args'.K, args'.n, args'.x)
           IN  /\ Ok(valid) => result' = fresh.out /\ engine' = fresh.self
               /\ ~Ok(valid) => engine' = engine /\ result' = valid

C25_HistoryIndependence == [][C25_Step]_vars

\* a call answered 'Infinita' on an instance whose call before found a finite
\* population, and a failed validation on an instance that keeps its fields
C25_Witness ==
    /\ call = "BinomialDistribution.calculate"
    /\ result.status = "ValueError"
    /\ engine.is_finite
    /\ engine.N = Some(2)
    /\ args.N = Some(0)

\* C26: every ModelDecision of decide is Hypergeometric exactly when its own
\* sample_ratio field (n/N rounded to 4 decimals) is at least its
\* threshold_used field, also just below the threshold (N=4001, n=800)
C26_DecisionSelfConsistent ==
    (call = "decide" /\ Ok(result)) =>
        (result.distribution_type = HYPERGEOMETRIC
            <=> RLeq(result.threshold_used, R(result.sample_ratio, 10000)))

\* C27: whatever upload, analyze_column, calculate and clear_session requests
\* a session has seen, a cached column_analysis is the analysis of the
\* dataset now stored under dataframe_json, so the N and K that
\* calculate_auto_view pre-fills describe the current data
C27_AnalysisOfCurrentData ==
    "column_analysis" \in DOMAIN session =>
        /\ "dataframe_json" \in DOMAIN session
        /\ LET cached == session["column_analysis"]
               df == ReadJson(session["dataframe_json"])
           IN  cached = analyze_categorical_column(df, cached.column_name,
                                                   cached.success_category)

\* C28: for valid (N, K, n) with N >= 2 the Hypergeometric mean equals
\* sum_x x * pmf(x) and the variance equals sum_x (x - mean)^2 * pmf(x), over
\* x = 0..min(n, K) with pmf(x) = C(K,x) * C(N-K,n-x) / C(N,n); the variance is
\* never negative, so std is defined
C28_Ways(N, K, n, x) == Comb(K, x) * Comb(N - K, n - x)

\* sum over x = 0..k of x * C(K,x) * C(N-K,n-x)
RECURSIVE C28_FirstSum(_, _, _, _)
C28_FirstSum(N, K, n, k) ==
    IF k < 0 THEN 0 ELSE k * C28_Ways(N, K, n, k) + C28_FirstSum(N, K, n, k - 1)

\* sum over x = 0..k of (x*N - n*K)^2 * C(K,x) * C(N-K,n-x)
RECURSIVE C28_CentralSum(_, _, _, _)
C28_CentralSum(N, K, n, k) ==
    IF k < 0 THEN 0
    ELSE (k * N - n * K) * (k * N - n * K) * C28_Ways(N, K, n, k)
             + C28_CentralSum(N, K, n, k - 1)

C28_MomentsOfPmf ==
    /\ (call = "HypergeometricDistribution.calculate_mean" /\ args.N >= 2) =>
           result.mean = R(C28_FirstSum(args.N, args.K, args.n, Min(args.n, args.K)),
                           Comb(args.N, args.n))
    /\ (call = "HypergeometricDistribution.calculate_variance" /\ args.N >= 2) =>
           /\ Ok(result)
           /\ result.value =
                  R(C28_CentralSum(args.N, args.K, args.n, Min(args.n, args.K)),
                    args.N * args.N * Comb(args.N, args.n))
           /\ result.value.num >= 0
    /\ (call = "HypergeometricDistribution.calculate_std" /\ args.N >= 2) =>
           /\ Ok(result)
           /\ result.root = <<Hypergeometric_calculate_variance(
                                  args.N, args.K, args.n).value>>

\* a variance above zero with the finite-population factor below 1
C28_Witness ==
    /\ call = "HypergeometricDistribution.calculate_variance"
    /\ args.N = 10
    /\ args.K = 4
    /\ args.n = 3
    /\ result.value = R(56, 100)

====
